---- MODULE Spec2Model ----
(***************************************************************************)
(* SAP AI Core model discovery: getSapAiCoreModels and its on-disk cache,   *)
(* and the settings panel of the webview that calls it.                    *)
(*                                                                         *)
(* Three builds of the backend handler are modelled, named after the       *)
(* source file that holds them:                                            *)
(*   part_000  cache + orchestrationAvailable + cache fallback on error    *)
(*   part_001  cache + schemaVersion, no fallback on error                 *)
(*   part_002  no cache, returns (modelName, deploymentId) pairs           *)
(* A behaviour runs one build (variant); the cache file it starts with may *)
(* have been written by any caching build.                                 *)
(*                                                                         *)
(* Specifications:                                                         *)
(*   Spec         calls one after the other                                *)
(*   SpecKeys     calls one after the other, with rotated secrets and      *)
(*                token URLs and with dashes in clientId and baseUrl       *)
(*   SpecFetch    one call, the answer to its listing request observed     *)
(*   SpecOverlap  two calls in flight, fs.writeFile in its two steps       *)
(*   SpecProvider           SapAiCoreProvider.tsx, its fields as senders   *)
(*   FairSpecOrchestration  the same with the client id fixed, fair        *)
(*   SpecField              the panel with the field of the client id      *)
(*   FairSpecDebounce       useDebouncedInput alone, fair                  *)
(*   SpecPicker             part_003 with the picker of part_004           *)
(*                                                                         *)
(* In the handler strings are sequences of one-character strings, so that  *)
(* split, toLowerCase, sort and the JSON text of the cache file are        *)
(* computed; in the webview they are strings, joined with \o.              *)
(***************************************************************************)
EXTENDS Integers, Sequences, FiniteSets, TLC

\* Longest deployment list (response.data.resources) the provider returns.
MaxDeployments == 2

-----------------------------------------------------------------------------
(* Strings *)

\* A JavaScript undefined where a string is expected.
Undefined == <<"undefined">>

\* !x for a string-or-undefined x.
Falsy(x) == x = Undefined \/ x = <<>>

\* The model's alphabet in ascending UTF-16 code unit order.
CodeOrder == <<"\"", "#", "-", "0", "1", "2", "9", ":", "B", "F", "\\", "a", "b", "c", "e", "f", "g", "i", "n", "o", "r", "s", "t", "u", "v">>

CharCode(ch) == CHOOSE i \in 1..Len(CodeOrder) : CodeOrder[i] = ch

\* String.prototype.toLowerCase on one character.
LowerChar(ch) == IF ch = "B" THEN "b" ELSE IF ch = "F" THEN "f" ELSE ch

toLowerCase(s) == [i \in 1..Len(s) |-> LowerChar(s[i])]

\* s.split(":")[0]: the part before the first colon (all of s without one).
RECURSIVE splitColonFirst(_)
splitColonFirst(s) ==
    IF s = <<>> \/ Head(s) = ":" THEN <<>>
    ELSE <<Head(s)>> \o splitColonFirst(Tail(s))

\* a < b as Array.prototype.sort compares strings by default (code units).
RECURSIVE StrLess(_, _)
StrLess(a, b) ==
    IF b = <<>> THEN FALSE
    ELSE IF a = <<>> THEN TRUE
    ELSE IF Head(a) = Head(b) THEN StrLess(Tail(a), Tail(b))
    ELSE CharCode(Head(a)) < CharCode(Head(b))

\* Insert x into the sorted sequence xs after every element not greater.
RECURSIVE InsertSorted(_, _)
InsertSorted(x, xs) ==
    IF xs = <<>> THEN <<x>>
    ELSE IF StrLess(x, Head(xs)) THEN <<x>> \o xs
    ELSE <<Head(xs)>> \o InsertSorted(x, Tail(xs))

\* Array.prototype.sort() with the default comparator (stable).
RECURSIVE sort(_)
sort(xs) ==
    IF xs = <<>> THEN <<>>
    ELSE InsertSorted(xs[Len(xs)], sort(SubSeq(xs, 1, Len(xs) - 1)))

-----------------------------------------------------------------------------
(* JSON text of the values the cache file holds *)

\* JSON.stringify of one character inside a string literal.
EscapeChar(ch) ==
    IF ch = "\"" THEN <<"\\", "\"">>
    ELSE IF ch = "\\" THEN <<"\\", "\\">>
    ELSE <<ch>>

RECURSIVE EscapeAll(_)
EscapeAll(s) == IF s = <<>> THEN <<>> ELSE EscapeChar(Head(s)) \o EscapeAll(Tail(s))

\* JSON.stringify(s) for a string s.
StringifyString(s) == <<"\"">> \o EscapeAll(s) \o <<"\"">>

RECURSIVE StringifyItems(_)
StringifyItems(a) ==
    IF a = <<>> THEN <<>>
    ELSE IF Len(a) = 1 THEN StringifyString(a[1])
    ELSE StringifyString(a[1]) \o <<",">> \o StringifyItems(Tail(a))

\* JSON.stringify(a) for an array of strings a (insignificant whitespace left out).
StringifyArray(a) == <<"[">> \o StringifyItems(a) \o <<"]">>

\* JSON.stringify(b) for a boolean b: the literal is one token of the text.
StringifyBool(b) == IF b THEN <<"true">> ELSE <<"false">>

\* Reading a string literal of text t from position i (just after the opening
\* quote): [ok, value, next], next being the position after the closing quote.
RECURSIVE ReadString(_, _, _)
ReadString(t, i, acc) ==
    IF i > Len(t) THEN [ok |-> FALSE, value |-> <<>>, next |-> i]
    ELSE IF t[i] = "\"" THEN [ok |-> TRUE, value |-> acc, next |-> i + 1]
    ELSE IF t[i] = "\\" THEN
        IF i + 1 <= Len(t) /\ t[i + 1] \in {"\"", "\\"}
        THEN ReadString(t, i + 2, Append(acc, t[i + 1]))
        ELSE [ok |-> FALSE, value |-> <<>>, next |-> i]
    ELSE ReadString(t, i + 1, Append(acc, t[i]))

\* Reading the items of an array from position i (at an item): [ok, value].
RECURSIVE ReadItems(_, _, _)
ReadItems(t, i, acc) ==
    IF i > Len(t) \/ t[i] # "\"" THEN [ok |-> FALSE, value |-> <<>>]
    ELSE LET s == ReadString(t, i + 1, <<>>) IN
         IF ~s.ok \/ s.next > Len(t) THEN [ok |-> FALSE, value |-> <<>>]
         ELSE IF t[s.next] = "]" THEN
             [ok |-> s.next = Len(t), value |-> Append(acc, s.value)]
         ELSE IF t[s.next] = "," THEN ReadItems(t, s.next + 1, Append(acc, s.value))
         ELSE [ok |-> FALSE, value |-> <<>>]

\* JSON.parse of the text of one value: [ok, value]; ok = FALSE is a SyntaxError.
ParseValue(t) ==
    IF t = <<>> THEN [ok |-> FALSE, value |-> <<>>]
    ELSE IF t = <<"true">> THEN [ok |-> TRUE, value |-> TRUE]
    ELSE IF t = <<"false">> THEN [ok |-> TRUE, value |-> FALSE]
    ELSE IF t = <<"[", "]">> THEN [ok |-> TRUE, value |-> <<>>]
    ELSE IF t[1] = "[" THEN ReadItems(t, 2, <<>>)
    ELSE IF t[1] = "\"" THEN
        LET s == ReadString(t, 2, <<>>) IN
        [ok |-> s.ok /\ s.next = Len(t) + 1, value |-> s.value]
    ELSE [ok |-> FALSE, value |-> <<>>]

-----------------------------------------------------------------------------
(* Requests *)

Variants == {"part_000", "part_001", "part_002"}

\* The builds that keep the cache file sap_ai_core_models.json.
Caching(v) == v \in {"part_000", "part_001"}

ClientIds == {<<>>, <<"a">>}
ClientSecrets == {<<>>, <<"s">>}
BaseUrls == {<<>>, <<"u">>, <<"v">>}
TokenUrls == {<<"t">>}
ResourceGroups == {<<"r">>}

\* SapAiCoreModelsRequest.
Requests ==
    [clientId : ClientIds, clientSecret : ClientSecrets, baseUrl : BaseUrls,
     tokenUrl : TokenUrls, resourceGroup : ResourceGroups, forceModelsRefresh : BOOLEAN]

\* Mutant of ConfigComplete: the baseUrl test is left out.
ConfigCompleteNoBaseUrl(request) ==
    ~(Falsy(request.clientId) \/ Falsy(request.clientSecret))

\* The required-configuration test every build starts with.
ConfigComplete(request) ==
    ~(Falsy(request.clientId) \/ Falsy(request.clientSecret) \/ Falsy(request.baseUrl))

\* crypto md5 hex digest, taken to be injective on the strings of the model:
\* the digest of s is s behind a marker.
Md5(s) == <<"#">> \o s

\* Mutant of generateConfigHash: the clientSecret is hashed as well.
generateConfigHashWithSecret(request) ==
    Md5(request.clientId \o <<"-">> \o request.baseUrl \o <<"-">> \o request.resourceGroup
        \o <<"-">> \o request.clientSecret)

\* Mutant of generateConfigHash: the baseUrl is left out of the hashed string.
generateConfigHashNoBaseUrl(request) ==
    Md5(request.clientId \o <<"-">> \o request.resourceGroup)

generateConfigHash(request) ==
    Md5(request.clientId \o <<"-">> \o request.baseUrl \o <<"-">> \o request.resourceGroup)

-----------------------------------------------------------------------------
(* The provider *)

\* What the token request can yield: a rejection (network error, non-2xx, a
\* body that is no object), or a token whose access_token is empty or not.
TokenOutcomes == {"rejected", "empty_token", "token"}

AccessTokenOf(outcome) == IF outcome = "token" THEN <<"t", "o", "k">> ELSE <<>>

\* Deployments the provider may list. name or version Undefined stands for any
\* missing link of details?.resources?.backend_details?.model.
DeploymentCatalogue ==
    { [id |-> <<"1">>, targetStatus |-> "RUNNING", scenarioId |-> "foundation-models",
       name |-> <<"F", "o", "o">>, version |-> <<"1">>],
      [id |-> <<"2">>, targetStatus |-> "STOPPED", scenarioId |-> "foundation-models",
       name |-> <<"B", "a", "r">>, version |-> <<"2">>],
      [id |-> <<"0">>, targetStatus |-> "RUNNING", scenarioId |-> "orchestration",
       name |-> Undefined, version |-> Undefined],
      [id |-> <<"9">>, targetStatus |-> "RUNNING", scenarioId |-> "foundation-models",
       name |-> <<"b", "\"">>, version |-> <<"2">>] }

\* response.data.resources of the deployment listing.
RECURSIVE SeqsUpTo(_, _)
SeqsUpTo(S, n) ==
    IF n = 0 THEN {<<>>}
    ELSE LET shorter == SeqsUpTo(S, n - 1) IN
         shorter \cup {Append(q, x) : q \in shorter, x \in S}

Resources == SeqsUpTo(DeploymentCatalogue, MaxDeployments)

\* The listing is rejected (network error, non-2xx, a body without resources:
\* the TypeError is caught and rethrown inside the fetcher) or returns resources.
Rejected == [rejected |-> TRUE, resources |-> <<>>]

ListOutcomes == {Rejected} \cup {[rejected |-> FALSE, resources |-> r] : r \in Resources}

IsRunning(d) == d.targetStatus = "RUNNING"

\* Mutant of HasModel: the model version is not looked at.
HasModelNameOnly(d) == ~Falsy(d.name)

\* The deployment has both a model name and a model version.
HasModel(d) == ~(Falsy(d.name) \/ Falsy(d.version))

\* `${model.name}:${model.version}`
ModelIdentifier(d) == d.name \o <<":">> \o d.version

SentinelName == <<"a", "i", "-", "c", "o", "r", "e", "-", "n", "o", "t", "-", "c", "o", "n", "f", "i", "g", "u", "r", "e", "d">>

SentinelId == <<"n", "o", "t", "c", "o", "n", "f", "i", "g", "u", "r", "e", "d">>

\* The deployments a fetcher keeps: running, with a model name and version.
KeptDeployments(resources) ==
    LET Kept(d) == IsRunning(d) /\ HasModel(d) IN SelectSeq(resources, Kept)

\* The map of the kept deployments to their model identifiers.
ModelIdentifiers(kept) == [i \in 1..Len(kept) |-> ModelIdentifier(kept[i])]

\* part_000: model identifiers and orchestration availability of a listing.
fetchAiCoreModelsAndOrchestration(resources) ==
    [modelNames |-> ModelIdentifiers(KeptDeployments(resources)),
     orchestrationAvailable |->
        \E i \in 1..Len(resources) :
            IsRunning(resources[i]) /\ resources[i].scenarioId = "orchestration"]

\* part_001: model identifiers of a listing.
fetchAiCoreModelNames(resources) == ModelIdentifiers(KeptDeployments(resources))

\* part_002: {id, name} of the kept deployments of a listing.
fetchAiCoreDeployments(resources) ==
    LET kept == KeptDeployments(resources) IN
    [i \in 1..Len(kept) |-> [id |-> kept[i].id, name |-> ModelIdentifier(kept[i])]]

\* modelName.split(":")[0].toLowerCase()
BaseName(modelName) == toLowerCase(splitColonFirst(modelName))

\* Mutant of baseModelNames: the base names are left in the order fetched.
baseModelNamesUnsorted(modelNames) ==
    [i \in 1..Len(modelNames) |-> BaseName(modelNames[i])]

\* part_000 line 210, part_001 line 194: base names, sorted.
baseModelNames(modelNames) ==
    sort([i \in 1..Len(modelNames) |-> BaseName(modelNames[i])])

-----------------------------------------------------------------------------
(* The cache file sap_ai_core_models.json *)

\* The file is absent, or holds the text of a JSON object: its members in the
\* order written, each the JSON text of its value, and whether the text was
\* written to its end (closed), followed by what is left of a longer text that
\* was written over from the start (tail). An open text is what a failed write
\* or an open for writing leaves.
NoFile == [exists |-> FALSE, members |-> <<>>, closed |-> FALSE, tail |-> <<>>]

TruncatedFile == [exists |-> TRUE, members |-> <<>>, closed |-> FALSE, tail |-> <<>>]

FileOf(members) == [exists |-> TRUE, members |-> members, closed |-> TRUE, tail |-> <<>>]

SAP_AI_CORE_CACHE_SCHEMA_VERSION == <<"1", ".", "0", ".", "0">>

\* Mutant of cacheData000: the names are written under another key than the
\* one read back.
cacheData000WrongKey(modelNames, orchestrationAvailable, configHash) ==
    << [key |-> "models", text |-> StringifyArray(modelNames)],
       [key |-> "orchestrationAvailable", text |-> StringifyBool(orchestrationAvailable)],
       [key |-> "configHash", text |-> StringifyString(configHash)] >>

\* JSON.stringify(cacheData) of part_000's saveCachedData.
cacheData000(modelNames, orchestrationAvailable, configHash) ==
    << [key |-> "modelNames", text |-> StringifyArray(modelNames)],
       [key |-> "orchestrationAvailable", text |-> StringifyBool(orchestrationAvailable)],
       [key |-> "configHash", text |-> StringifyString(configHash)] >>

\* Mutant of cacheData001: the schemaVersion is not written.
cacheData001Unversioned(modelNames, configHash, schemaVersion) ==
    << [key |-> "modelNames", text |-> StringifyArray(modelNames)],
       [key |-> "configHash", text |-> StringifyString(configHash)] >>

\* JSON.stringify(cacheData) of part_001's saveCachedData, for a build whose
\* schema version constant is schemaVersion.
cacheData001(modelNames, configHash, schemaVersion) ==
    << [key |-> "modelNames", text |-> StringifyArray(modelNames)],
       [key |-> "configHash", text |-> StringifyString(configHash)],
       [key |-> "schemaVersion", text |-> StringifyString(schemaVersion)] >>

\* JSON.parse(await fs.readFile(...)): [ok, obj], obj a function from the keys
\* of the object to their values; ok = FALSE is the SyntaxError of a text that
\* is not JSON.
JsonParse(f) ==
    LET ms == f.members
        keys == {ms[i].key : i \in 1..Len(ms)}
        TextOf(k) == ms[CHOOSE i \in 1..Len(ms) : ms[i].key = k].text
    IN  IF ~f.closed \/ f.tail # <<>> \/ \E i \in 1..Len(ms) : ~ParseValue(ms[i].text).ok
        THEN [ok |-> FALSE, obj |-> <<>>]
        ELSE [ok |-> TRUE, obj |-> [k \in keys |-> ParseValue(TextOf(k)).value]]

\* obj.k, Undefined when the object has no such member.
Field(obj, k) == IF k \in DOMAIN obj THEN obj[k] ELSE Undefined

\* getCachedData returns null.
Null == [hit |-> FALSE, modelNames |-> <<>>, orchestrationAvailable |-> FALSE]

\* What the callers read of a returned cachedData. A missing modelNames or
\* orchestrationAvailable becomes [] or false in the response message.
CachedData(obj) ==
    [hit |-> TRUE,
     modelNames |-> IF "modelNames" \in DOMAIN obj THEN obj.modelNames ELSE <<>>,
     orchestrationAvailable |->
        IF "orchestrationAvailable" \in DOMAIN obj THEN obj.orchestrationAvailable ELSE FALSE]

\* Mutant of getCachedData000: the configHash is not compared.
getCachedData000AnyHash(f, configHash) ==
    IF ~f.exists THEN Null
    ELSE LET parsed == JsonParse(f) IN
         IF ~parsed.ok THEN Null ELSE CachedData(parsed.obj)

\* part_000 getCachedData: the entry when the file exists, parses and carries
\* the configHash asked for; null otherwise (a read or parse error is caught).
getCachedData000(f, configHash) ==
    IF ~f.exists THEN Null
    ELSE LET parsed == JsonParse(f) IN
         IF ~parsed.ok THEN Null
         ELSE IF Field(parsed.obj, "configHash") = configHash THEN CachedData(parsed.obj)
         ELSE Null

\* Mutant of getCachedData001: the schemaVersion is not compared.
getCachedData001AnySchema(f, configHash) ==
    IF ~f.exists THEN Null
    ELSE LET parsed == JsonParse(f) IN
         IF ~parsed.ok THEN Null
         ELSE IF Field(parsed.obj, "configHash") = configHash THEN CachedData(parsed.obj)
         ELSE Null

\* part_001 getCachedData: as part_000, and the schemaVersion must be current.
getCachedData001(f, configHash) ==
    IF ~f.exists THEN Null
    ELSE LET parsed == JsonParse(f) IN
         IF ~parsed.ok THEN Null
         ELSE IF /\ Field(parsed.obj, "configHash") = configHash
                 /\ Field(parsed.obj, "schemaVersion") = SAP_AI_CORE_CACHE_SCHEMA_VERSION
              THEN CachedData(parsed.obj)
         ELSE Null

getCachedData(v, f, configHash) ==
    IF v = "part_000" THEN getCachedData000(f, configHash)
    ELSE getCachedData001(f, configHash)

\* fs.writeFile either writes the whole text, or fails before touching the file
\* (the error is caught), or fails after truncating it.
WriteOutcomes == {"written", "failed", "truncated"}

WriteFile(f, members, outcome) ==
    IF outcome = "written" THEN FileOf(members)
    ELSE IF outcome = "truncated" THEN TruncatedFile
    ELSE f

\* part_000 saveCachedData: the file after the call.
saveCachedData000(f, modelNames, orchestrationAvailable, configHash, outcome) ==
    WriteFile(f, cacheData000(modelNames, orchestrationAvailable, configHash), outcome)

\* part_001 saveCachedData: the file after the call.
saveCachedData001(f, modelNames, configHash, outcome) ==
    WriteFile(f, cacheData001(modelNames, configHash, SAP_AI_CORE_CACHE_SCHEMA_VERSION), outcome)

-----------------------------------------------------------------------------
(* part_002: model-deployment pairs *)

\* The model's alphabet in the order localeCompare gives its characters
\* (punctuation, then digits, then letters, lower case first).
LocaleOrder == <<"-", ":", "\"", "\\", "#", "0", "1", "2", "9", "a", "b", "B", "c", "e", "f", "F", "g", "i", "n", "o", "r", "s", "t", "u", "v">>

LocaleCode(ch) == CHOOSE i \in 1..Len(LocaleOrder) : LocaleOrder[i] = ch

\* a.localeCompare(b) < 0
RECURSIVE LocaleLess(_, _)
LocaleLess(a, b) ==
    IF b = <<>> THEN FALSE
    ELSE IF a = <<>> THEN TRUE
    ELSE IF Head(a) = Head(b) THEN LocaleLess(Tail(a), Tail(b))
    ELSE LocaleCode(Head(a)) < LocaleCode(Head(b))

RECURSIVE InsertPair(_, _)
InsertPair(x, xs) ==
    IF xs = <<>> THEN <<x>>
    ELSE IF LocaleLess(x.modelName, Head(xs).modelName) THEN <<x>> \o xs
    ELSE <<Head(xs)>> \o InsertPair(x, Tail(xs))

\* .sort((a, b) => a.modelName.localeCompare(b.modelName)), stable.
RECURSIVE sortByModelName(_)
sortByModelName(xs) ==
    IF xs = <<>> THEN <<>>
    ELSE InsertPair(xs[Len(xs)], sortByModelName(SubSeq(xs, 1, Len(xs) - 1)))

\* Mutant of modelDeployments: the pairs are left in the order fetched.
modelDeploymentsUnsorted(deployments) ==
    [i \in 1..Len(deployments) |->
        [modelName |-> BaseName(deployments[i].name), deploymentId |-> deployments[i].id]]

\* part_002 lines 108-116: the pairs of the fetched deployments, sorted.
modelDeployments(deployments) ==
    sortByModelName([i \in 1..Len(deployments) |->
        [modelName |-> BaseName(deployments[i].name), deploymentId |-> deployments[i].id]])

-----------------------------------------------------------------------------
(* State *)

VARIABLES
    variant,    \* the build that runs
    file,       \* the cache file
    writer,     \* the request of the call that last wrote into the file
    listing,    \* the answer to the last listing request, where it is observed
    calls,      \* the getSapAiCoreModels call of each slot
    apiConfiguration,   \* the extension state's configuration, as the webview last rendered it
    pending,    \* the handleFieldChange updates on their way through the extension
    sessionCache,       \* the module-level cache of SapAiCoreProvider.tsx
    provider,   \* the SapAiCoreProvider component: its state and its RPCs in flight
    field,      \* the DebouncedTextField of the client id
    picker,     \* the model picker of the other build, with the mode's stored ids
    event       \* the handler that ran last, where it is observed

backend == <<variant, file, writer, listing, calls>>

webview == <<apiConfiguration, pending, sessionCache, provider, field, picker, event>>

vars == <<variant, file, writer, listing, calls,
          apiConfiguration, pending, sessionCache, provider, field, picker, event>>

\* Slots for calls; the sequential specification uses the first alone.
Slots == {1, 2}

SeqSlots == {1}

NoRequest ==
    [clientId |-> <<>>, clientSecret |-> <<>>, baseUrl |-> <<>>, tokenUrl |-> <<>>,
     resourceGroup |-> <<>>, forceModelsRefresh |-> FALSE]

\* No listing request was observed.
NoListing == [rejected |-> TRUE, resources |-> <<>>, made |-> FALSE]

\* The call that came just before, kept when this call is made, as that one
\* was, without forced refresh and for the same clientId, baseUrl and
\* resourceGroup.
NoPrev ==
    [some |-> FALSE, result |-> <<>>, resultOrch |-> FALSE, outcome |-> "NONE",
     write |-> "none", clientSecret |-> <<>>, tokenUrl |-> <<>>]

\* A call: where it is (pc), its request and locals, what it returned
\* (outcome, result, resultOrch) and what it did on the way (the counters of
\* token requests, listing requests, cache reads and cache writes, the outcome
\* of its write, the file it found when it began, the answer to its token
\* request).
IdleCall ==
    [pc |-> "idle", request |-> NoRequest, configHash |-> <<>>, accessToken |-> <<>>,
     modelNames |-> <<>>, orchestrationAvailable |-> FALSE,
     outcome |-> "NONE", result |-> <<>>, resultOrch |-> FALSE,
     tokenReqs |-> 0, listReqs |-> 0, cacheReads |-> 0, cacheWrites |-> 0,
     write |-> "none", fileAtStart |-> NoFile, prev |-> NoPrev,
     token |-> "none"]

\* The webview before the settings panel renders: no credential stored, no
\* update on its way, sessionCache = null, no component mounted.
NoConfiguration ==
    [sapAiCoreClientId |-> "", sapAiCoreClientSecret |-> "", sapAiCoreBaseUrl |-> "",
     sapAiCoreTokenUrl |-> "", sapAiResourceGroup |-> "",
     sapAiCoreUseOrchestrationMode |-> FALSE]

\* let sessionCache ... | null = null
NoSessionCache ==
    [some |-> FALSE, credentialsHash |-> "", models |-> <<>>,
     orchestrationAvailable |-> FALSE, hasChecked |-> FALSE]

\* No response of a fetch is known.
NoResponse ==
    [some |-> FALSE, resolved |-> FALSE, modelNames |-> <<>>,
     orchestrationAvailable |-> FALSE, credentialsHash |-> ""]

\* The component's useState initial values; rpcs are the credentials hashes
\* of the configurations its RPCs in flight were started with, in the order
\* they were started; latest is the fetch started last, with its response
\* once it came; overlapped says that it was started while another was in flight.
UnmountedProvider ==
    [mounted |-> FALSE, showModelOptions |-> FALSE,
     deployedModelsArray |-> <<>>, orchestrationAvailable |-> FALSE,
     hasCheckedOrchestration |-> FALSE, isLoadingModels |-> FALSE, modelError |-> FALSE,
     rpcs |-> <<>>, latest |-> NoResponse, overlapped |-> FALSE]

\* The hook's state, the prop it was last rendered with, whether the debounce
\* timer runs, and the value the input had when it last gained focus.
UnmountedField ==
    [localValue |-> "", committedValue |-> "", initialValue |-> "", armed |-> FALSE,
     atFocus |-> ""]

\* The other build's provider with its picker: the deployments it fetched,
\* the ids stored for the current mode, the updates of these on their way,
\* and whether the picker is given selectedDeploymentId.
UnmountedPicker ==
    [mounted |-> FALSE, deployments |-> <<>>, modelId |-> "", deploymentId |-> "",
     updates |-> <<>>, passed |-> FALSE]

NoEvent ==
    [kind |-> "none", value |-> "", hasChanged |-> FALSE, edited |-> FALSE, started |-> 0,
     calls |-> 0, off |-> FALSE]

WebviewIdle ==
    /\ apiConfiguration = NoConfiguration
    /\ pending = <<>>
    /\ sessionCache = NoSessionCache
    /\ provider = UnmountedProvider
    /\ field = UnmountedField
    /\ picker = UnmountedPicker
    /\ event = NoEvent

\* The names and hashes of the entries the file may hold at the start.
InitialNames ==
    {<<>>, << <<"f", "o", "o">> >>, << <<"b", "a", "r">>, <<"f", "o", "o">> >>}

InitialHashes == {generateConfigHash(r) : r \in {q \in Requests : ConfigComplete(q)}}

OlderSchemaVersion == <<"0", ".", "9", ".", "0">>

\* The file at the start: none, one a failed write truncated, or an entry
\* written by a caching build (part_001 possibly of an older schema version).
InitialFiles ==
    {NoFile, TruncatedFile}
    \cup {FileOf(cacheData000(n, o, h)) : n \in InitialNames, o \in BOOLEAN, h \in InitialHashes}
    \cup {FileOf(cacheData001(n, h, sv)) :
            n \in InitialNames, h \in InitialHashes,
            sv \in {SAP_AI_CORE_CACHE_SCHEMA_VERSION, OlderSchemaVersion}}

Init ==
    /\ variant \in Variants
    /\ file \in InitialFiles
    /\ writer = NoRequest
    /\ listing = NoListing
    /\ calls = [c \in Slots |-> IdleCall]
    /\ WebviewIdle

-----------------------------------------------------------------------------
(* getSapAiCoreModels, one action per await *)

\* return ...: the call ends with an outcome and a response; its locals go.
Return(call, outcome, result, resultOrch) ==
    [call EXCEPT !.pc = "done", !.outcome = outcome, !.result = result,
                 !.resultOrch = resultOrch, !.accessToken = <<>>,
                 !.modelNames = <<>>, !.orchestrationAvailable = FALSE]

ReturnEmpty(call) == Return(call, "RETURNED_EMPTY", <<>>, FALSE)

\* Mutant of Catch: the token request is made again after an error.
CatchRetry(v, call) == [call EXCEPT !.pc = "getToken", !.accessToken = <<>>]

\* Mutant of Catch: the error is thrown on to the caller.
CatchRethrow(v, call) == Return(call, "THROWN", <<>>, FALSE)

\* An error thrown inside the try block of getSapAiCoreModels reaches its catch
\* block: part_000 goes on to read the cache, the others return empty.
Catch(v, call) ==
    IF v = "part_000"
    THEN [call EXCEPT !.pc = "fallback", !.accessToken = <<>>,
                      !.modelNames = <<>>, !.orchestrationAvailable = FALSE]
    ELSE ReturnEmpty(call)

\* Mutant of AfterConfigCheck: the test of forceModelsRefresh is inverted.
AfterConfigCheckInverted(v, request) ==
    IF Caching(v) /\ request.forceModelsRefresh THEN "cacheCheck" ELSE "getToken"

\* Mutant of AfterConfigCheck: forceModelsRefresh is not looked at.
AfterConfigCheckIgnoringForce(v, request) ==
    IF Caching(v) THEN "cacheCheck" ELSE "getToken"

\* Where a call with a complete configuration goes after computing its hash.
AfterConfigCheck(v, request) ==
    IF Caching(v) /\ ~request.forceModelsRefresh THEN "cacheCheck" ELSE "getToken"

\* The call of the slot before this one, if it is done and was made without
\* forced refresh, as this one, for the same clientId, baseUrl and resourceGroup.
PrevOf(old, request) ==
    IF /\ old.pc = "done"
       /\ ~request.forceModelsRefresh /\ ~old.request.forceModelsRefresh
       /\ old.request.clientId = request.clientId
       /\ old.request.baseUrl = request.baseUrl
       /\ old.request.resourceGroup = request.resourceGroup
    THEN [some |-> TRUE, result |-> old.result, resultOrch |-> old.resultOrch,
          outcome |-> old.outcome, write |-> old.write,
          clientSecret |-> old.request.clientSecret, tokenUrl |-> old.request.tokenUrl]
    ELSE NoPrev

\* getSapAiCoreModels(controller, request) up to its first await.
Call(c, request) ==
    /\ calls[c].pc \in {"idle", "done"}
    /\ LET begun == [IdleCall EXCEPT !.request = request, !.fileAtStart = file,
                                     !.prev = PrevOf(calls[c], request)]
       IN  calls' = [calls EXCEPT ![c] =
                IF ~ConfigComplete(request) THEN ReturnEmpty(begun)
                ELSE [begun EXCEPT !.configHash = generateConfigHash(request),
                                   !.pc = AfterConfigCheck(variant, request)]]
    /\ UNCHANGED <<webview, variant, file, writer, listing>>

\* 1. CHECK CACHE FIRST: await getCachedData(controller, configHash).
CacheCheck(c) ==
    /\ calls[c].pc = "cacheCheck"
    /\ LET call == [calls[c] EXCEPT !.cacheReads = @ + 1]
           cachedData == getCachedData(variant, file, call.configHash)
       IN  calls' = [calls EXCEPT ![c] =
                IF cachedData.hit
                THEN Return(call, "RETURNED_CACHED", cachedData.modelNames,
                            cachedData.orchestrationAvailable)
                ELSE [call EXCEPT !.pc = "getToken"]]
    /\ UNCHANGED <<webview, variant, file, writer, listing>>

\* 2. await getToken(clientId, clientSecret, tokenUrl).
GetToken(c, outcome) ==
    /\ calls[c].pc = "getToken"
    /\ LET call == [calls[c] EXCEPT !.tokenReqs = @ + 1, !.token = outcome]
       IN  calls' = [calls EXCEPT ![c] =
                IF outcome = "rejected" THEN Catch(variant, call)
                ELSE [call EXCEPT !.pc = "fetch", !.accessToken = AccessTokenOf(outcome)]]
    /\ UNCHANGED <<webview, variant, file, writer, listing>>

\* What the fetcher of build v returns for a listing: the model identifiers
\* (part_002: the deployments) and the orchestration availability.
Fetched(v, resources) ==
    IF v = "part_000" THEN fetchAiCoreModelsAndOrchestration(resources)
    ELSE IF v = "part_001"
    THEN [modelNames |-> fetchAiCoreModelNames(resources), orchestrationAvailable |-> FALSE]
    ELSE [modelNames |-> fetchAiCoreDeployments(resources), orchestrationAvailable |-> FALSE]

\* Mutant of NotConfigured: an empty token yields no models.
NotConfiguredEmpty(v) == [modelNames |-> <<>>, orchestrationAvailable |-> FALSE]

\* What the fetcher of build v returns without a request, for an empty token.
NotConfigured(v) ==
    IF v = "part_002"
    THEN [modelNames |-> << [id |-> SentinelId, name |-> SentinelName] >>,
          orchestrationAvailable |-> FALSE]
    ELSE [modelNames |-> <<SentinelName>>, orchestrationAvailable |-> FALSE]

\* After the fetcher returned: part_002 returns the sorted pairs; the caching
\* builds normalise the names and go on to save them.
AfterFetch(v, call, fetched) ==
    IF v = "part_002"
    THEN Return(call, "RETURNED_FRESH", modelDeployments(fetched.modelNames), FALSE)
    ELSE [call EXCEPT !.pc = "save", !.accessToken = <<>>,
                      !.modelNames = baseModelNames(fetched.modelNames),
                      !.orchestrationAvailable = fetched.orchestrationAvailable]

\* await fetch...(token.access_token, baseUrl, resourceGroup), then the
\* normalisation up to the next await: what it does to the call.
FetchStep(c, outcome) ==
    /\ calls[c].pc = "fetch"
    /\ calls' = [calls EXCEPT ![c] =
            IF Falsy(calls[c].accessToken)
            THEN AfterFetch(variant, calls[c], NotConfigured(variant))
            ELSE LET call == [calls[c] EXCEPT !.listReqs = @ + 1] IN
                 IF outcome.rejected THEN Catch(variant, call)
                 ELSE AfterFetch(variant, call, Fetched(variant, outcome.resources))]
    /\ UNCHANGED <<webview, variant, file, writer>>

\* The fetch step.
Fetch(c, outcome) ==
    /\ FetchStep(c, outcome)
    /\ UNCHANGED listing

\* Mutant of saveCachedData: an entry of another configuration is kept.
saveCachedDataKeepOther(v, f, call, outcome) ==
    IF f.exists /\ JsonParse(f).ok /\ Field(JsonParse(f).obj, "configHash") # call.configHash
    THEN f
    ELSE saveCachedData001(f, call.modelNames, call.configHash, outcome)

\* The file after saveCachedData of build v.
saveCachedData(v, f, call, outcome) ==
    IF v = "part_000"
    THEN saveCachedData000(f, call.modelNames, call.orchestrationAvailable,
                           call.configHash, outcome)
    ELSE saveCachedData001(f, call.modelNames, call.configHash, outcome)

\* Mutant of AfterSave: a failed write throws out of saveCachedData.
AfterSaveThrowing(v, call, outcome) ==
    IF outcome = "written"
    THEN Return(call, "RETURNED_FRESH", call.modelNames, call.orchestrationAvailable)
    ELSE Catch(v, call)

\* After saveCachedData returned, which it does whatever became of the write
\* (its catch block logs the error): the fresh result is returned.
AfterSave(v, call, outcome) ==
    Return(call, "RETURNED_FRESH", call.modelNames, call.orchestrationAvailable)

\* The request a written file is remembered by.
WriterOf(request) == [request EXCEPT !.forceModelsRefresh = FALSE]

\* 3. SAVE TO CACHE: await saveCachedData(...), then return the fresh result.
Save(c, outcome) ==
    /\ calls[c].pc = "save"
    /\ file' = saveCachedData(variant, file, calls[c], outcome)
    /\ writer' = IF outcome = "written" THEN WriterOf(calls[c].request)
                 ELSE IF outcome = "truncated" THEN NoRequest
                 ELSE writer
    /\ LET call == [calls[c] EXCEPT !.cacheWrites = @ + 1, !.write = outcome]
       IN  calls' = [calls EXCEPT ![c] = AfterSave(variant, call, outcome)]
    /\ UNCHANGED <<webview, variant, listing>>

\* 4. FALLBACK TO CACHE ON ERROR (part_000): await getCachedData again.
Fallback(c) ==
    /\ calls[c].pc = "fallback"
    /\ LET call == [calls[c] EXCEPT !.cacheReads = @ + 1]
           cachedData == getCachedData000(file, generateConfigHash(call.request))
       IN  calls' = [calls EXCEPT ![c] =
                IF cachedData.hit
                THEN Return(call, "RETURNED_CACHED", cachedData.modelNames,
                            cachedData.orchestrationAvailable)
                ELSE ReturnEmpty(call)]
    /\ UNCHANGED <<webview, variant, file, writer, listing>>

\* A step of the call in slot c.
Step(c) ==
    \/ CacheCheck(c)
    \/ \E outcome \in TokenOutcomes : GetToken(c, outcome)
    \/ \E outcome \in ListOutcomes : Fetch(c, outcome)
    \/ \E outcome \in WriteOutcomes : Save(c, outcome)
    \/ Fallback(c)

\* Calls made one after the other.
Next ==
    \E c \in SeqSlots :
        \/ \E request \in Requests : Call(c, request)
        \/ Step(c)

Spec == Init /\ [][Next]_vars

-----------------------------------------------------------------------------
(* Calls one after the other with rotated secrets and token URLs, and with
   client ids and base URLs that contain the dash generateConfigHash joins by *)

\* Three configurations; the first two differ in clientId and in baseUrl.
KeyConfigs ==
    { [clientId |-> <<"a", "-", "b">>, baseUrl |-> <<"u">>],
      [clientId |-> <<"a">>, baseUrl |-> <<"b", "-", "u">>],
      [clientId |-> <<"a">>, baseUrl |-> <<"u">>] }

\* Credentials that differ in the secret, in the token URL, or in both.
KeyCredentials ==
    { [clientSecret |-> <<"s">>, tokenUrl |-> <<"t">>],
      [clientSecret |-> <<"p">>, tokenUrl |-> <<"t">>],
      [clientSecret |-> <<"p">>, tokenUrl |-> <<"w">>] }

KeyRequests ==
    {[clientId |-> k.clientId, clientSecret |-> cr.clientSecret, baseUrl |-> k.baseUrl,
      tokenUrl |-> cr.tokenUrl, resourceGroup |-> rg, forceModelsRefresh |-> force] :
        k \in KeyConfigs, cr \in KeyCredentials, rg \in ResourceGroups, force \in BOOLEAN}

\* The listing is rejected or answered with one deployment that is kept.
KeyListOutcomes ==
    {o \in ListOutcomes :
        o.rejected \/ (Len(o.resources) = 1 /\ Len(KeptDeployments(o.resources)) = 1)}

\* No cache file yet.
InitKeys ==
    /\ variant \in Variants
    /\ file = NoFile
    /\ writer = NoRequest
    /\ listing = NoListing
    /\ calls = [c \in Slots |-> IdleCall]
    /\ WebviewIdle

KeyStep(c) ==
    \/ CacheCheck(c)
    \/ \E outcome \in TokenOutcomes : GetToken(c, outcome)
    \/ \E outcome \in KeyListOutcomes : Fetch(c, outcome)
    \/ \E outcome \in WriteOutcomes : Save(c, outcome)
    \/ Fallback(c)

NextKeys ==
    \E c \in SeqSlots :
        \/ \E request \in KeyRequests : Call(c, request)
        \/ KeyStep(c)

SpecKeys == InitKeys /\ [][NextKeys]_vars

-----------------------------------------------------------------------------
(* Two calls that overlap. fs.writeFile opens the file for writing, which
   empties it, then writes its text from the start, then closes it; between
   these awaits the other call runs. *)

\* The text of a JSON object, one element per character (a key counts as one).
RECURSIVE FlatMembers(_)
FlatMembers(members) ==
    IF members = <<>> THEN <<>>
    ELSE <<"\"", Head(members).key, "\"", ":">> \o Head(members).text
         \o (IF Len(members) = 1 THEN <<>> ELSE <<",">>) \o FlatMembers(Tail(members))

FlatText(members) == <<"{">> \o FlatMembers(members) \o <<"}">>

\* The text the file holds.
FileText(f) == IF f.closed THEN FlatText(f.members) \o f.tail ELSE <<>>

\* The file after the text of members is written from its start: what the file
\* held beyond the length of that text stays.
WriteAtStart(f, members) ==
    LET new == FlatText(members)
        old == FileText(f)
    IN  [exists |-> TRUE, members |-> members, closed |-> TRUE,
         tail |-> IF Len(old) > Len(new) THEN SubSeq(old, Len(new) + 1, Len(old)) ELSE <<>>]

\* JSON.stringify(cacheData) of build v for the call.
cacheData(v, call) ==
    IF v = "part_000"
    THEN cacheData000(call.modelNames, call.orchestrationAvailable, call.configHash)
    ELSE cacheData001(call.modelNames, call.configHash, SAP_AI_CORE_CACHE_SCHEMA_VERSION)

OpenOutcomes == {"opened", "failed"}

\* fs.writeFile, first part: the file is opened for writing and emptied, or
\* the open fails and saveCachedData returns.
SaveOpen(c, outcome) ==
    /\ calls[c].pc = "save"
    /\ IF outcome = "opened"
       THEN /\ file' = TruncatedFile
            /\ writer' = NoRequest
            /\ calls' = [calls EXCEPT ![c].pc = "write"]
       ELSE /\ calls' = [calls EXCEPT ![c] =
                    AfterSave(variant, [calls[c] EXCEPT !.cacheWrites = @ + 1,
                                                        !.write = "failed"], "failed")]
            /\ UNCHANGED <<file, writer>>
    /\ UNCHANGED <<webview, variant, listing>>

WrittenOutcomes == {"written", "truncated"}

\* fs.writeFile, second part: the text is written from the start of the file,
\* or the write fails; saveCachedData returns and the fresh result is returned.
SaveWrite(c, outcome) ==
    /\ calls[c].pc = "write"
    /\ IF outcome = "written"
       THEN /\ file' = WriteAtStart(file, cacheData(variant, calls[c]))
            /\ writer' = WriterOf(calls[c].request)
       ELSE UNCHANGED <<file, writer>>
    /\ calls' = [calls EXCEPT ![c] =
            AfterSave(variant, [calls[c] EXCEPT !.cacheWrites = @ + 1, !.write = outcome],
                      outcome)]
    /\ UNCHANGED <<webview, variant, listing>>

\* The one call of a slot begins.
Begin(c, request) ==
    /\ calls[c].pc = "idle"
    /\ Call(c, request)

OverlapRequests == {r \in Requests : ConfigComplete(r)}

\* The listing is rejected or answered with deployments that are all kept.
OverlapListOutcomes ==
    {o \in ListOutcomes :
        o.rejected \/ (o.resources # <<>> /\ KeptDeployments(o.resources) = o.resources)}

InitOverlap ==
    /\ variant \in Variants
    /\ file = NoFile
    /\ writer = NoRequest
    /\ listing = NoListing
    /\ calls = [c \in Slots |-> IdleCall]
    /\ WebviewIdle

\* Each slot makes one call; the steps of the two calls interleave.
NextOverlap ==
    \E c \in Slots :
        \/ \E request \in OverlapRequests : Begin(c, request)
        \/ CacheCheck(c)
        \/ \E outcome \in TokenOutcomes : GetToken(c, outcome)
        \/ \E outcome \in OverlapListOutcomes : Fetch(c, outcome)
        \/ \E outcome \in OpenOutcomes : SaveOpen(c, outcome)
        \/ \E outcome \in WrittenOutcomes : SaveWrite(c, outcome)
        \/ Fallback(c)

SpecOverlap == InitOverlap /\ [][NextOverlap]_vars

-----------------------------------------------------------------------------
(* One call, the answer to its listing request observed *)

\* Deployments that lack the model version alone, or the model name alone.
FetchCatalogue ==
    DeploymentCatalogue \cup
    { [id |-> <<"3">>, targetStatus |-> "RUNNING", scenarioId |-> "foundation-models",
       name |-> <<"B", "a", "r">>, version |-> Undefined],
      [id |-> <<"4">>, targetStatus |-> "RUNNING", scenarioId |-> "foundation-models",
       name |-> Undefined, version |-> <<"1">>] }

FetchListOutcomes ==
    {Rejected} \cup
    {[rejected |-> FALSE, resources |-> r] : r \in SeqsUpTo(FetchCatalogue, MaxDeployments)}

FetchRequests == {r \in Requests : ConfigComplete(r)}

\* The fetch step, the answer to its listing request (if it makes one) observed.
Listed(c, outcome) ==
    /\ FetchStep(c, outcome)
    /\ listing' = IF Falsy(calls[c].accessToken) THEN listing
                  ELSE [rejected |-> outcome.rejected, resources |-> outcome.resources,
                        made |-> TRUE]

NextFetch ==
    \E c \in SeqSlots :
        \/ \E request \in FetchRequests : Begin(c, request)
        \/ CacheCheck(c)
        \/ \E outcome \in TokenOutcomes : GetToken(c, outcome)
        \/ \E outcome \in FetchListOutcomes : Listed(c, outcome)
        \/ \E outcome \in WriteOutcomes : Save(c, outcome)
        \/ Fallback(c)

SpecFetch == Init /\ [][NextFetch]_vars

-----------------------------------------------------------------------------
(* The settings panel: SapAiCoreProvider.tsx with its session cache *)

\* The RPCs one component has in flight at most, and the updates on their
\* way through the extension at most.
MaxInFlight == 2

MaxPending == 1

\* "" is a credential that is not set.
FieldClientIds == {"", "a", "b"}

FieldClientSecrets == {"s", "p"}

Configurations ==
    [sapAiCoreClientId : FieldClientIds, sapAiCoreClientSecret : FieldClientSecrets,
     sapAiCoreBaseUrl : {"u"}, sapAiCoreTokenUrl : {"t"}, sapAiResourceGroup : {"r"},
     sapAiCoreUseOrchestrationMode : BOOLEAN]

\* `${config?.sapAiCoreClientId || ""}-${config?.sapAiCoreBaseUrl || ""}-${config?.sapAiResourceGroup || ""}`
getCredentialsHash(config) ==
    config.sapAiCoreClientId \o "-" \o config.sapAiCoreBaseUrl \o "-" \o config.sapAiResourceGroup

hasRequiredCredentials(config) ==
    /\ config.sapAiCoreClientId # ""
    /\ config.sapAiCoreClientSecret # ""
    /\ config.sapAiCoreBaseUrl # ""
    /\ config.sapAiCoreTokenUrl # ""
    /\ config.sapAiResourceGroup # ""

\* What the RPC answers: it rejects, or resolves with a response whose
\* modelNames and orchestrationAvailable are read with || [] and || false.
Responses ==
    {[resolved |-> FALSE, modelNames |-> <<>>, orchestrationAvailable |-> FALSE],
     [resolved |-> TRUE, modelNames |-> <<>>, orchestrationAvailable |-> FALSE],
     [resolved |-> TRUE, modelNames |-> <<"gpt">>, orchestrationAvailable |-> TRUE]}

\* fetchSapAiCoreModels up to its await, called in a render of config: the
\* component and the session cache after it.
fetchSapAiCoreModels(p, cache, config) ==
    IF ~hasRequiredCredentials(config)
      THEN [provider |-> [p EXCEPT !.deployedModelsArray = <<>>,
                                   !.orchestrationAvailable = FALSE,
                                   !.hasCheckedOrchestration = FALSE],
            sessionCache |-> NoSessionCache]
      ELSE [provider |-> [p EXCEPT !.isLoadingModels = TRUE, !.modelError = FALSE,
                                   !.rpcs = Append(@, getCredentialsHash(config)),
                                   !.latest = [NoResponse EXCEPT
                                                    !.credentialsHash = getCredentialsHash(config)],
                                   !.overlapped = (p.rpcs # <<>>)],
            sessionCache |-> cache]

\* The rest of fetchSapAiCoreModels, when the RPC started with the hash
\* answers: try or catch, then finally.
AfterRpcKeepCache(p, cache, hash, response) ==
    IF response.resolved
      THEN [provider |-> [p EXCEPT !.deployedModelsArray = response.modelNames,
                                   !.orchestrationAvailable = response.orchestrationAvailable,
                                   !.hasCheckedOrchestration = TRUE,
                                   !.isLoadingModels = FALSE],
            sessionCache |-> [some |-> TRUE, credentialsHash |-> hash,
                              models |-> response.modelNames,
                              orchestrationAvailable |-> response.orchestrationAvailable,
                              hasChecked |-> TRUE]]
      ELSE [provider |-> [p EXCEPT !.modelError = TRUE,
                                   !.deployedModelsArray = <<>>,
                                   !.orchestrationAvailable = FALSE,
                                   !.hasCheckedOrchestration = TRUE,
                                   !.isLoadingModels = FALSE],
            sessionCache |-> cache]

AfterRpc(p, cache, hash, response) ==
    IF response.resolved
      THEN [provider |-> [p EXCEPT !.deployedModelsArray = response.modelNames,
                                   !.orchestrationAvailable = response.orchestrationAvailable,
                                   !.hasCheckedOrchestration = TRUE,
                                   !.isLoadingModels = FALSE],
            sessionCache |-> [some |-> TRUE, credentialsHash |-> hash,
                              models |-> response.modelNames,
                              orchestrationAvailable |-> response.orchestrationAvailable,
                              hasChecked |-> TRUE]]
      ELSE [provider |-> [p EXCEPT !.modelError = TRUE,
                                   !.deployedModelsArray = <<>>,
                                   !.orchestrationAvailable = FALSE,
                                   !.hasCheckedOrchestration = TRUE,
                                   !.isLoadingModels = FALSE],
            sessionCache |-> NoSessionCache]

\* The session cache effect of a render of config.
SessionCacheEffectAnyHash(p, cache, config) ==
    IF ~p.showModelOptions \/ ~hasRequiredCredentials(config)
      THEN [provider |-> p, sessionCache |-> cache]
      ELSE IF cache.some /\ cache.hasChecked
        THEN [provider |-> [p EXCEPT !.deployedModelsArray = cache.models,
                                     !.orchestrationAvailable = cache.orchestrationAvailable,
                                     !.hasCheckedOrchestration = TRUE],
              sessionCache |-> cache]
        ELSE fetchSapAiCoreModels(p, cache, config)

SessionCacheEffect(p, cache, config) ==
    IF ~p.showModelOptions \/ ~hasRequiredCredentials(config)
      THEN [provider |-> p, sessionCache |-> cache]
      ELSE IF /\ cache.some
              /\ cache.credentialsHash = getCredentialsHash(config)
              /\ cache.hasChecked
        THEN [provider |-> [p EXCEPT !.deployedModelsArray = cache.models,
                                     !.orchestrationAvailable = cache.orchestrationAvailable,
                                     !.hasCheckedOrchestration = TRUE],
              sessionCache |-> cache]
        ELSE fetchSapAiCoreModels(p, cache, config)

\* What the session cache effect depends on: showModelOptions,
\* hasRequiredCredentials and fetchSapAiCoreModels, a new function whenever
\* one of the five credentials changes.
CacheEffectDeps(p, config) ==
    <<p.showModelOptions, config.sapAiCoreClientId, config.sapAiCoreClientSecret,
      config.sapAiCoreBaseUrl, config.sapAiCoreTokenUrl, config.sapAiResourceGroup>>

\* An update handleFieldChange sends; by tells the user's from the component's own.
Update(fieldName, value, by) == [field |-> fieldName, value |-> value, by |-> by]

OrchestrationDeps(p, config) ==
    <<p.hasCheckedOrchestration, p.orchestrationAvailable, config.sapAiCoreUseOrchestrationMode>>

\* The orchestration effect of a render, where ran says that it runs (the
\* first render, or one of its dependencies changed): the updates it sends.
OrchestrationEffectUnchecked(ran, p, config) ==
    IF ran /\ ~p.orchestrationAvailable /\ config.sapAiCoreUseOrchestrationMode
      THEN <<Update("sapAiCoreUseOrchestrationMode", "false", "effect")>>
      ELSE <<>>

OrchestrationEffect(ran, p, config) ==
    IF /\ ran
       /\ p.hasCheckedOrchestration
       /\ ~p.orchestrationAvailable
       /\ config.sapAiCoreUseOrchestrationMode
      THEN <<Update("sapAiCoreUseOrchestrationMode", "false", "effect")>>
      ELSE <<>>

\* What the last handler did, for the properties: its kind, a value (of an
\* answer: the hash its RPC was started with; of a debounce firing: the value
\* onChange got), the hasChanged of a blur and whether the user had edited
\* the field, the RPCs it started, the onChange calls it made, and whether
\* the orchestration effect of its render sent its update.
Event(kind, value, hasChanged, edited, started, onChangeCalls) ==
    [kind |-> kind, value |-> value, hasChanged |-> hasChanged, edited |-> edited,
     started |-> started, calls |-> onChangeCalls, off |-> FALSE]

\* useDebouncedInput's first effect in a render with the prop initialValue:
\* on a change of the prop both values are set to it; the debounce effect
\* runs again when localValue changed by that.
useDebouncedInputReset(f, initialValue) ==
    IF initialValue = f.initialValue
      THEN f
      ELSE [f EXCEPT !.initialValue = initialValue,
                     !.localValue = initialValue,
                     !.committedValue = initialValue,
                     !.armed = f.armed \/ (initialValue # f.localValue),
                     !.atFocus = initialValue]

\* A render commits: the component and the session cache as the handler and
\* the session cache effect left them (r), the field re-rendered with its
\* prop, and the orchestration effect, which runs in the first render and
\* when one of its dependencies changed, sending after the updates sent.
Render(config, r, sent, ev) ==
    LET updates == OrchestrationEffect(
                        \/ ~provider.mounted
                        \/ OrchestrationDeps(provider, apiConfiguration)
                                # OrchestrationDeps(r.provider, config),
                        r.provider, config)
    IN  /\ apiConfiguration' = config
        /\ provider' = r.provider
        /\ sessionCache' = r.sessionCache
        /\ pending' = sent \o updates
        /\ Len(pending') <= MaxPending
        /\ Len(r.provider.rpcs) <= MaxInFlight
        /\ event' = [ev EXCEPT !.off = (updates # <<>>)]
        /\ UNCHANGED <<backend, picker>>

\* The session cache effect ran, on the component p, and left r.
EffectEvent(p, r) ==
    Event("effect", "", FALSE, FALSE, Len(r.provider.rpcs) - Len(p.rpcs), 0)

\* The first render of the component, with showModelOptions as the panel passes it.
Mount(show) ==
    /\ ~provider.mounted
    /\ LET p == [provider EXCEPT !.mounted = TRUE, !.showModelOptions = show]
           r == SessionCacheEffect(p, sessionCache, apiConfiguration)
       IN  /\ Render(apiConfiguration, r, pending, EffectEvent(p, r))
           /\ field' = [localValue |-> apiConfiguration.sapAiCoreClientId,
                        committedValue |-> apiConfiguration.sapAiCoreClientId,
                        initialValue |-> apiConfiguration.sapAiCoreClientId,
                        armed |-> TRUE,
                        atFocus |-> apiConfiguration.sapAiCoreClientId]

\* The extension applied the oldest update and posted its state: the
\* component renders with the new configuration.
Apply(config, update) ==
    IF update.field = "sapAiCoreUseOrchestrationMode"
      THEN [config EXCEPT !.sapAiCoreUseOrchestrationMode = (update.value = "true")]
      ELSE [config EXCEPT ![update.field] = update.value]

Deliver ==
    /\ provider.mounted
    /\ pending # <<>>
    /\ LET config == Apply(apiConfiguration, Head(pending))
           ran == CacheEffectDeps(provider, config) # CacheEffectDeps(provider, apiConfiguration)
           r == IF ran THEN SessionCacheEffect(provider, sessionCache, config)
                       ELSE [provider |-> provider, sessionCache |-> sessionCache]
       IN  /\ Render(config, r, Tail(pending),
                     IF ran THEN EffectEvent(provider, r)
                            ELSE Event("delivered", "", FALSE, FALSE, 0, 0))
           /\ field' = useDebouncedInputReset(field, config.sapAiCoreClientId)

\* The panel shows or hides the model options.
ShowModelOptions(show) ==
    /\ provider.mounted
    /\ show # provider.showModelOptions
    /\ LET p == [provider EXCEPT !.showModelOptions = show]
           r == SessionCacheEffect(p, sessionCache, apiConfiguration)
       IN  Render(apiConfiguration, r, pending, EffectEvent(p, r))
    /\ UNCHANGED field

\* onChange of the client secret's field, and the checkbox of the
\* orchestration mode: handleFieldChange sends the update.
handleFieldChange(fieldName, value) ==
    /\ provider.mounted
    /\ Len(pending) < MaxPending
    /\ pending' = Append(pending, Update(fieldName, value, "user"))
    /\ event' = Event("change", "", FALSE, FALSE, 0, 0)
    /\ UNCHANGED <<backend, apiConfiguration, sessionCache, provider, field, picker>>

\* The user types into the field of the client id: onInput sets localValue,
\* and the debounce effect, which depends on it, starts the timer anew.
Input(value) ==
    /\ provider.mounted
    /\ value # field.localValue
    /\ field' = [field EXCEPT !.localValue = value, !.armed = TRUE]
    /\ event' = Event("input", "", FALSE, FALSE, 0, 0)
    /\ UNCHANGED <<backend, apiConfiguration, pending, sessionCache, provider, picker>>

\* The debounce timer fires and runs the callback of useDebouncedInput.
DebounceFireAlways ==
    /\ provider.mounted
    /\ field.armed
    /\ Len(pending) < MaxPending
    /\ pending' = Append(pending, Update("sapAiCoreClientId", field.localValue, "user"))
    /\ field' = [field EXCEPT !.armed = FALSE, !.committedValue = field.localValue]
    /\ event' = Event("fire", field.localValue, FALSE, FALSE, 0, 1)
    /\ UNCHANGED <<backend, apiConfiguration, sessionCache, provider, picker>>

DebounceFire ==
    /\ provider.mounted
    /\ field.armed
    /\ IF field.localValue # field.committedValue
         THEN /\ Len(pending) < MaxPending
              /\ pending' = Append(pending, Update("sapAiCoreClientId", field.localValue, "user"))
              /\ field' = [field EXCEPT !.armed = FALSE, !.committedValue = field.localValue]
              /\ event' = Event("fire", field.localValue, FALSE, FALSE, 0, 1)
         ELSE /\ pending' = pending
              /\ field' = [field EXCEPT !.armed = FALSE]
              /\ event' = Event("fire", "", FALSE, FALSE, 0, 0)
    /\ UNCHANGED <<backend, apiConfiguration, sessionCache, provider, picker>>

\* handleCredentialBlur, called by the field's handleBlur.
handleCredentialBlur(p, cache, config, hasChanged) ==
    IF hasChanged /\ p.showModelOptions
      THEN fetchSapAiCoreModels(p, cache, config)
      ELSE [provider |-> p, sessionCache |-> cache]

\* The field of the client id loses focus: handleBlur compares the input's
\* value with committedValue and calls onBlur.
handleBlur ==
    /\ provider.mounted
    /\ LET hasChanged == field.localValue # field.committedValue
           r == handleCredentialBlur(provider, sessionCache, apiConfiguration, hasChanged)
       IN  Render(apiConfiguration, r, pending,
                  Event("blur", "", hasChanged, field.localValue # field.atFocus,
                        Len(r.provider.rpcs) - Len(provider.rpcs), 0))
    /\ field' = [field EXCEPT !.atFocus = field.localValue]

\* The RPC started i-th of those in flight answers.
Answer(i, response) ==
    /\ i \in 1..Len(provider.rpcs)
    /\ LET p == [provider EXCEPT !.rpcs = SubSeq(@, 1, i - 1) \o SubSeq(@, i + 1, Len(@)),
                                 !.latest =
                                    IF i = Len(provider.rpcs) /\ ~provider.latest.some
                                      THEN [some |-> TRUE, resolved |-> response.resolved,
                                            modelNames |-> response.modelNames,
                                            orchestrationAvailable |->
                                                response.orchestrationAvailable,
                                            credentialsHash |-> provider.rpcs[i]]
                                      ELSE @]
           r == AfterRpc(p, sessionCache, provider.rpcs[i], response)
       IN  Render(apiConfiguration, r, pending,
                  Event(IF response.resolved THEN "resolved" ELSE "rejected",
                        provider.rpcs[i], FALSE, FALSE, 0, 0))
    /\ UNCHANGED field

\* The settings panel opens on a stored configuration; the extension's
\* handler is left out of it.
InitWebview ==
    /\ variant = "part_000"
    /\ file = NoFile
    /\ writer = NoRequest
    /\ listing = NoListing
    /\ calls = [c \in Slots |-> IdleCall]
    /\ apiConfiguration \in Configurations
    /\ pending = <<>>
    /\ sessionCache = NoSessionCache
    /\ provider = UnmountedProvider
    /\ field = UnmountedField
    /\ picker = UnmountedPicker
    /\ event = NoEvent

\* Every RPC in flight is answered in the end.
Answered == \E i \in 1..MaxInFlight, response \in Responses : Answer(i, response)

\* The panel with its fields taken as the senders of their updates.
NextProvider ==
    \/ \E show \in BOOLEAN : Mount(show)
    \/ Deliver
    \/ \E show \in BOOLEAN : ShowModelOptions(show)
    \/ \E value \in FieldClientIds : handleFieldChange("sapAiCoreClientId", value)
    \/ \E value \in FieldClientSecrets : handleFieldChange("sapAiCoreClientSecret", value)
    \/ \E checked \in {"true", "false"} :
            handleFieldChange("sapAiCoreUseOrchestrationMode", checked)
    \/ Answered

SpecProvider == InitWebview /\ [][NextProvider]_vars

\* The panel as far as the orchestration mode goes: the client id stays.
NextOrchestration ==
    \/ \E show \in BOOLEAN : Mount(show)
    \/ Deliver
    \/ \E show \in BOOLEAN : ShowModelOptions(show)
    \/ \E value \in FieldClientSecrets : handleFieldChange("sapAiCoreClientSecret", value)
    \/ \E checked \in {"true", "false"} :
            handleFieldChange("sapAiCoreUseOrchestrationMode", checked)
    \/ Answered

\* The extension applies every update and answers every RPC. In the
\* program the delivery never has to wait; here the caps can hold it back
\* for a while, so it is taken as strongly fair.
FairSpecOrchestration ==
    InitWebview /\ [][NextOrchestration]_vars /\ SF_vars(Deliver) /\ WF_vars(Answered)

\* The panel with the field of the client id, the user at that field alone.
NextField ==
    \/ \E show \in BOOLEAN : Mount(show)
    \/ Deliver
    \/ \E value \in FieldClientIds : Input(value)
    \/ DebounceFire
    \/ handleBlur
    \/ Answered

SpecField == InitWebview /\ [][NextField]_vars

\* The field's hook alone, in a panel that shows no model options and
\* whose other fields stay as they are.
NextDebounce ==
    \/ Mount(FALSE)
    \/ Deliver
    \/ \E value \in FieldClientIds : Input(value)
    \/ DebounceFire

\* The extension applies every update and a timer that runs fires. In the
\* program neither ever has to wait; here the cap on the updates can hold a
\* step back for a while, so both are taken as strongly fair.
FairSpecDebounce ==
    InitWebview /\ [][NextDebounce]_vars /\ SF_vars(Deliver) /\ SF_vars(DebounceFire)

-----------------------------------------------------------------------------
(* The other build: the provider of part_003 with the picker of part_004 *)

\* The updates of the stored ids on their way at most.
MaxUpdates == 2

\* What a fetch may answer: no deployment, one, two of the same model name
\* in either order, two of different models, one of a model that is not
\* supported.
PickerDeployments ==
    {<<>>,
     <<[modelName |-> "llama", deploymentId |-> "d4"]>>,
     <<[modelName |-> "gpt", deploymentId |-> "d1"]>>,
     <<[modelName |-> "gpt", deploymentId |-> "d1"], [modelName |-> "gpt", deploymentId |-> "d2"]>>,
     <<[modelName |-> "gpt", deploymentId |-> "d2"], [modelName |-> "gpt", deploymentId |-> "d1"]>>,
     <<[modelName |-> "claude", deploymentId |-> "d3"], [modelName |-> "gpt", deploymentId |-> "d1"]>>}

\* The values of the dropdown's options: "" for the placeholder and the
\* section headers, else a model id, deployed or only supported.
OptionValues == {"", "gpt", "claude", "gemini"}

\* deployments.find((d) => d.modelName === modelName): the index of the
\* first such deployment, 0 for undefined.
Find(deployments, modelName) ==
    IF \E i \in 1..Len(deployments) : deployments[i].modelName = modelName
      THEN CHOOSE i \in 1..Len(deployments) :
                /\ deployments[i].modelName = modelName
                /\ \A j \in 1..(i - 1) : deployments[j].modelName # modelName
      ELSE 0

ModeUpdate(modelId, deploymentId, by) ==
    [modelId |-> modelId, deploymentId |-> deploymentId, by |-> by]

\* The effect of the provider that updates the deployment id: the updates it sends.
autoUpdateAlways(p) ==
    IF p.deployments = <<>> \/ p.modelId = "" \/ p.deploymentId = ""
      THEN <<>>
      ELSE IF Find(p.deployments, p.modelId) # 0
        THEN <<ModeUpdate(p.modelId,
                          p.deployments[Find(p.deployments, p.modelId)].deploymentId,
                          "provider")>>
        ELSE <<>>

autoUpdate(p) ==
    IF p.deployments = <<>>
      THEN <<>>
      ELSE IF p.modelId # "" /\ p.deploymentId # ""
        THEN IF /\ Find(p.deployments, p.modelId) # 0
                /\ p.deployments[Find(p.deployments, p.modelId)].deploymentId # p.deploymentId
               THEN <<ModeUpdate(p.modelId,
                                 p.deployments[Find(p.deployments, p.modelId)].deploymentId,
                                 "provider")>>
               ELSE <<>>
        ELSE <<>>

\* The effect of the picker that fixes the deployment id, with the props the
\* provider gives it: the calls of onModelChange, which is the provider's
\* handleModelChange and sends the update.
autoFix(sapAiCoreModelDeployments, selectedModelId, selectedDeploymentId) ==
    IF selectedModelId = "" \/ selectedDeploymentId = "" \/ sapAiCoreModelDeployments = <<>>
      THEN <<>>
      ELSE IF /\ Find(sapAiCoreModelDeployments, selectedModelId) # 0
              /\ sapAiCoreModelDeployments[Find(sapAiCoreModelDeployments, selectedModelId)].deploymentId
                    # selectedDeploymentId
        THEN <<ModeUpdate(selectedModelId,
                          sapAiCoreModelDeployments[
                              Find(sapAiCoreModelDeployments, selectedModelId)].deploymentId,
                          "picker")>>
        ELSE <<>>

\* handleModelChange of the picker on the value of the chosen option: the
\* calls of onModelChange.
handleModelChangeAnyOption(sapAiCoreModelDeployments, selectedValue) ==
    IF selectedValue = ""
      THEN <<>>
      ELSE <<ModeUpdate(selectedValue,
                        IF Find(sapAiCoreModelDeployments, selectedValue) # 0
                          THEN sapAiCoreModelDeployments[
                                  Find(sapAiCoreModelDeployments, selectedValue)].deploymentId
                          ELSE "",
                        "user")>>

handleModelChange(sapAiCoreModelDeployments, selectedValue) ==
    IF selectedValue = ""
      THEN <<>>
      ELSE IF Find(sapAiCoreModelDeployments, selectedValue) # 0
        THEN <<ModeUpdate(selectedValue,
                          sapAiCoreModelDeployments[
                              Find(sapAiCoreModelDeployments, selectedValue)].deploymentId,
                          "user")>>
        ELSE <<>>

\* Object.keys(sapAiCoreModels): the ids of the models Cline supports, in the
\* order of the object's keys, each once.
allSupportedModels == <<"claude", "gemini", "gpt">>

\* The two sections of the dropdown: the deployments of supported models,
\* one entry per deployment in the order of the list, and the supported
\* models that no deployment names.
categorizedModels(sapAiCoreModelDeployments) ==
    LET deployedAndSupported ==
            SelectSeq(sapAiCoreModelDeployments,
                      LAMBDA deployment :
                        \E i \in 1..Len(allSupportedModels) :
                            allSupportedModels[i] = deployment.modelName)
        supportedButNotDeployed ==
            SelectSeq(allSupportedModels,
                      LAMBDA supportedModel :
                        ~ \E i \in 1..Len(sapAiCoreModelDeployments) :
                            sapAiCoreModelDeployments[i].modelName = supportedModel)
    IN  [deployed |-> [i \in 1..Len(deployedAndSupported) |->
                            [id |-> deployedAndSupported[i].modelName,
                             isDeployed |-> TRUE, section |-> "deployed"]],
         supported |-> [i \in 1..Len(supportedButNotDeployed) |->
                            [id |-> supportedButNotDeployed[i],
                             isDeployed |-> FALSE, section |-> "supported"]]]

\* The options of the dropdown, each with its React key and its value: the
\* placeholder, then each section that is not empty under its header.
renderOptions(sapAiCoreModelDeployments) ==
    LET models == categorizedModels(sapAiCoreModelDeployments)
    IN  <<[key |-> "placeholder", value |-> ""]>>
        \o (IF Len(models.deployed) > 0
              THEN <<[key |-> "deployed-header", value |-> ""]>>
                   \o [i \in 1..Len(models.deployed) |->
                            [key |-> models.deployed[i].id, value |-> models.deployed[i].id]]
              ELSE <<>>)
        \o (IF Len(models.supported) > 0
              THEN <<[key |-> "supported-header", value |-> ""]>>
                   \o [i \in 1..Len(models.supported) |->
                            [key |-> models.supported[i].id, value |-> models.supported[i].id]]
              ELSE <<>>)

\* A render of the provider p with its picker commits: the picker's effect
\* runs before the provider's; sent are the updates the handler sent itself.
PickerRender(p, sent, kind, value) ==
    LET fixes == autoFix(p.deployments, p.modelId, IF p.passed THEN p.deploymentId ELSE "")
                    \o autoUpdate(p)
    IN  /\ picker' = [p EXCEPT !.updates = sent \o fixes]
        /\ Len(picker'.updates) <= MaxUpdates
        /\ event' = Event(kind, value, FALSE, FALSE, Len(fixes), 0)
        /\ UNCHANGED <<backend, apiConfiguration, pending, sessionCache, provider, field>>

\* The fetch of the provider answered with deployments (or with none, or failed).
Loaded(deployments) ==
    /\ picker.mounted
    /\ PickerRender([picker EXCEPT !.deployments = deployments], picker.updates, "loaded", "")

\* The user chooses an option of the dropdown.
Choose(selectedValue) ==
    /\ picker.mounted
    /\ picker' = [picker EXCEPT !.updates =
                        @ \o handleModelChange(picker.deployments, selectedValue)]
    /\ Len(picker'.updates) <= MaxUpdates
    /\ event' = Event("choose", selectedValue, FALSE, FALSE, 0, 0)
    /\ UNCHANGED <<backend, apiConfiguration, pending, sessionCache, provider, field>>

\* The extension applied the oldest update of the stored ids and posted its
\* state; the effects run if an id changed.
DeliverPicker ==
    /\ picker.mounted
    /\ picker.updates # <<>>
    /\ LET u == Head(picker.updates)
           p == [picker EXCEPT !.modelId = u.modelId, !.deploymentId = u.deploymentId]
       IN  IF p.modelId = picker.modelId /\ p.deploymentId = picker.deploymentId
             THEN /\ picker' = [picker EXCEPT !.updates = Tail(@)]
                  /\ event' = Event("applied", u.by, FALSE, FALSE, 0, 0)
                  /\ UNCHANGED <<backend, apiConfiguration, pending, sessionCache,
                                 provider, field>>
             ELSE PickerRender(p, Tail(picker.updates), "applied", u.by)

\* The panel opens on the ids stored for the mode; no deployment is fetched yet.
InitPicker ==
    /\ variant = "part_002"
    /\ file = NoFile
    /\ writer = NoRequest
    /\ listing = NoListing
    /\ calls = [c \in Slots |-> IdleCall]
    /\ apiConfiguration = NoConfiguration
    /\ pending = <<>>
    /\ sessionCache = NoSessionCache
    /\ provider = UnmountedProvider
    /\ field = UnmountedField
    /\ picker \in {[UnmountedPicker EXCEPT !.mounted = TRUE, !.modelId = m,
                                           !.deploymentId = IF m = "" THEN "" ELSE d,
                                           !.passed = g] :
                        m \in OptionValues, d \in {"", "d1", "d9"}, g \in BOOLEAN}
    /\ event = NoEvent

NextPicker ==
    \/ \E deployments \in PickerDeployments : Loaded(deployments)
    \/ \E selectedValue \in OptionValues : Choose(selectedValue)
    \/ DeliverPicker

SpecPicker == InitPicker /\ [][NextPicker]_vars

-----------------------------------------------------------------------------
(* Vocabulary of the properties *)

Done(c) == calls[c].pc = "done"

\* clientId, clientSecret or baseUrl is missing or empty.
Missing(request) ==
    request.clientId = <<>> \/ request.clientSecret = <<>> \/ request.baseUrl = <<>>

\* The hash of the request's clientId, baseUrl and resourceGroup.
ExpectedHash(request) ==
    <<"#">> \o request.clientId \o <<"-">> \o request.baseUrl \o <<"-">> \o request.resourceGroup

\* The file holds a JSON object.
HoldsEntry(f) == f.exists /\ JsonParse(f).ok

Entry(f) == JsonParse(f).obj

\* The file holds an entry that build v trusts for the request: its configHash
\* is the request's and, where the build has one, its schemaVersion is current.
ValidEntry(v, f, request) ==
    /\ HoldsEntry(f)
    /\ Field(Entry(f), "configHash") = ExpectedHash(request)
    /\ v = "part_001" => Field(Entry(f), "schemaVersion") = <<"1", ".", "0", ".", "0">>

EntryNames(f) == Field(Entry(f), "modelNames")

EntryOrch(f) ==
    IF "orchestrationAvailable" \in DOMAIN Entry(f) THEN Entry(f).orchestrationAvailable ELSE FALSE

NoNetwork(call) == call.tokenReqs = 0 /\ call.listReqs = 0

-----------------------------------------------------------------------------
(* Properties *)

\* C1: a call whose clientId, clientSecret or baseUrl is missing or empty
\* returns an empty result at once: no token request, no listing request, no
\* cache read and no cache write, in every build, whatever forceModelsRefresh
\* and the cache file are.
C1_IncompleteConfigReturnsEmpty ==
    \A c \in Slots :
        (calls[c].pc # "idle" /\ Missing(calls[c].request)) =>
            /\ Done(c)
            /\ calls[c].outcome = "RETURNED_EMPTY"
            /\ calls[c].result = <<>> /\ calls[c].resultOrch = FALSE
            /\ NoNetwork(calls[c])
            /\ calls[c].cacheReads = 0 /\ calls[c].cacheWrites = 0
            /\ file = calls[c].fileAtStart

\* C1 witness: a forced-refresh call without baseUrl has returned while the
\* cache file holds an entry.
C1_Witness ==
    \E c \in Slots :
        /\ Done(c) /\ Missing(calls[c].request)
        /\ calls[c].request.clientId # <<>> /\ calls[c].request.clientSecret # <<>>
        /\ calls[c].request.forceModelsRefresh
        /\ HoldsEntry(file)

\* C2: in a caching build, a call with a complete configuration and no forced
\* refresh that finds a valid entry returns exactly the entry's modelNames and
\* orchestrationAvailable, makes no token or listing request and leaves the
\* cache file as it is.
C2_CacheHitReturnsCached ==
    \A c \in Slots :
        (/\ Done(c) /\ Caching(variant)
         /\ ~Missing(calls[c].request) /\ ~calls[c].request.forceModelsRefresh
         /\ ValidEntry(variant, calls[c].fileAtStart, calls[c].request)) =>
            /\ calls[c].outcome = "RETURNED_CACHED"
            /\ calls[c].result = EntryNames(calls[c].fileAtStart)
            /\ calls[c].resultOrch = EntryOrch(calls[c].fileAtStart)
            /\ NoNetwork(calls[c])
            /\ calls[c].cacheWrites = 0
            /\ file = calls[c].fileAtStart

\* C2 witness: a cache hit that returned two cached names.
C2_Witness ==
    \E c \in Slots :
        /\ Done(c) /\ Caching(variant)
        /\ ~Missing(calls[c].request) /\ ~calls[c].request.forceModelsRefresh
        /\ ValidEntry(variant, calls[c].fileAtStart, calls[c].request)
        /\ Len(calls[c].result) = 2

\* The file holds the fresh result of the call under the request's hash.
HoldsFreshResult(f, call) ==
    /\ HoldsEntry(f)
    /\ Field(Entry(f), "configHash") = ExpectedHash(call.request)
    /\ EntryNames(f) = call.result

ForcedCall(c) ==
    /\ Done(c) /\ Caching(variant)
    /\ ~Missing(calls[c].request) /\ calls[c].request.forceModelsRefresh

\* C3 as claimed: a forced refresh always makes the token request, and when the
\* live fetch succeeds the cache entry is the fresh result when the call returns.
C3_Original ==
    \A c \in Slots :
        ForcedCall(c) =>
            /\ calls[c].tokenReqs = 1
            /\ calls[c].outcome = "RETURNED_FRESH" => HoldsFreshResult(file, calls[c])

\* C3 as amended: a forced refresh always makes the token request, before any
\* cache read, even when a valid entry exists; when the live fetch succeeds the
\* fresh result is written once before the call returns, and the cache entry is
\* the fresh result provided that write succeeded.
C3_ForcedRefreshFetches ==
    \A c \in Slots :
        ForcedCall(c) =>
            /\ calls[c].tokenReqs = 1
            /\ calls[c].listReqs <= 1
            /\ calls[c].outcome # "RETURNED_FRESH" => calls[c].cacheWrites = 0
            /\ calls[c].outcome = "RETURNED_FRESH" =>
                    /\ calls[c].cacheWrites = 1 /\ calls[c].cacheReads = 0
                    /\ calls[c].write = "written" => HoldsFreshResult(file, calls[c])

\* C3 witness: a forced refresh that found a valid entry fetched, and replaced
\* the entry by a different fresh result.
C3_Witness ==
    \E c \in Slots :
        /\ ForcedCall(c)
        /\ ValidEntry(variant, calls[c].fileAtStart, calls[c].request)
        /\ calls[c].outcome = "RETURNED_FRESH" /\ calls[c].write = "written"
        /\ calls[c].listReqs = 1
        /\ calls[c].result # EntryNames(calls[c].fileAtStart)

\* The live fetch of the call failed: it made the token request and did not
\* return a fresh result.
FetchFailed(call) == call.tokenReqs = 1 /\ call.outcome # "RETURNED_FRESH"

\* C4: in every caching build, a call whose live fetch failed returns the valid
\* entry of the cache when there is one, forced refresh or not, and an empty
\* result when there is none.
C4_ErrorFallsBackToCache ==
    \A c \in Slots :
        (Done(c) /\ Caching(variant) /\ FetchFailed(calls[c])) =>
            IF ValidEntry(variant, file, calls[c].request)
            THEN /\ calls[c].outcome = "RETURNED_CACHED"
                 /\ calls[c].result = EntryNames(file)
            ELSE calls[c].outcome = "RETURNED_EMPTY" /\ calls[c].result = <<>>

\* C5: a call never fails outright: whatever the provider and the file system
\* answer, it is always at one of its awaits or has returned, it makes each
\* request and each cache write at most once and reads the cache at most twice
\* (so it runs out of steps), and it ends in exactly one of RETURNED_EMPTY,
\* RETURNED_CACHED and RETURNED_FRESH, never with an error thrown to the caller.
C5_NeverFailsOutright ==
    \A c \in Slots :
        /\ calls[c].pc \in {"idle", "cacheCheck", "getToken", "fetch", "save", "fallback", "done"}
        /\ calls[c].tokenReqs <= 1 /\ calls[c].listReqs <= 1
        /\ calls[c].cacheWrites <= 1 /\ calls[c].cacheReads <= 2
        /\ Done(c) =>
            /\ calls[c].outcome \in {"RETURNED_EMPTY", "RETURNED_CACHED", "RETURNED_FRESH"}
            /\ calls[c].outcome = "RETURNED_EMPTY" =>
                    calls[c].result = <<>> /\ calls[c].resultOrch = FALSE
            /\ calls[c].outcome = "RETURNED_CACHED" => calls[c].cacheReads >= 1
            /\ calls[c].outcome = "RETURNED_FRESH" => calls[c].tokenReqs = 1
        /\ ~Done(c) => calls[c].outcome = "NONE"

\* C5 witness: a call whose deployment listing was rejected has returned empty.
C5_Witness ==
    \E c \in Slots :
        Done(c) /\ calls[c].listReqs = 1 /\ calls[c].outcome = "RETURNED_EMPTY"


\* The call repeats, with no forced refresh, the complete request of the call
\* made just before it, in a caching build.
RepeatedCall(c) ==
    /\ Done(c) /\ Caching(variant)
    /\ calls[c].prev.some /\ ~Missing(calls[c].request)
    /\ calls[c].prev.clientSecret = calls[c].request.clientSecret
    /\ calls[c].prev.tokenUrl = calls[c].request.tokenUrl

ServedFromCacheAsBefore(call) ==
    /\ call.result = call.prev.result
    /\ call.resultOrch = call.prev.resultOrch
    /\ call.outcome = "RETURNED_CACHED"
    /\ NoNetwork(call)

\* C6 as claimed: the second of two successive calls with the same complete
\* configuration and no forced refresh returns what the first returned, from
\* the cache and without a network call, whatever happened in the first.
C6_Original ==
    \A c \in Slots : RepeatedCall(c) => ServedFromCacheAsBefore(calls[c])

\* C6 as amended: the second of two successive calls with the same complete
\* configuration and no forced refresh returns what the first returned, from
\* the cache and without a network call, provided the first call returned a
\* cached result or a fresh result whose cache write succeeded.
C6_RepeatedCallIsServedFromCache ==
    \A c \in Slots :
        (/\ RepeatedCall(c)
         /\ \/ calls[c].prev.outcome = "RETURNED_CACHED"
            \/ calls[c].prev.outcome = "RETURNED_FRESH" /\ calls[c].prev.write = "written") =>
            ServedFromCacheAsBefore(calls[c])

\* C6 witness: the second call returned from the cache the two names, one with
\* a quote in it, that the first call fetched and wrote.
C6_Witness ==
    \E c \in Slots :
        /\ RepeatedCall(c)
        /\ calls[c].prev.outcome = "RETURNED_FRESH" /\ calls[c].prev.write = "written"
        /\ calls[c].outcome = "RETURNED_CACHED"
        /\ Len(calls[c].result) = 2
        /\ \E i \in 1..2 : calls[c].result[i] = <<"b", "\"">>

\* C7: a cache entry is trusted only under the hash of the request: with the
\* file as it is, getCachedData returns nothing for a hash other than the
\* stored configHash, and a call that returned a cached result, from the cache
\* check or from the error fallback, found an entry whose configHash is the
\* hash of its clientId, baseUrl and resourceGroup.
C7_EntryTrustedOnlyUnderItsHash ==
    /\ Caching(variant) =>
        \A h \in InitialHashes :
            getCachedData(variant, file, h).hit =>
                HoldsEntry(file) /\ Field(Entry(file), "configHash") = h
    /\ \A c \in Slots :
        (Done(c) /\ calls[c].outcome = "RETURNED_CACHED") =>
            /\ HoldsEntry(calls[c].fileAtStart)
            /\ Field(Entry(calls[c].fileAtStart), "configHash") = ExpectedHash(calls[c].request)

\* C7 witness: the live fetch failed, the file holds an entry under another
\* hash with names in it, and the error fallback returned empty.
C7_Witness ==
    \E c \in Slots :
        /\ Done(c) /\ variant = "part_000" /\ calls[c].cacheReads = 2
        /\ HoldsEntry(file) /\ EntryNames(file) # <<>>
        /\ Field(Entry(file), "configHash") # ExpectedHash(calls[c].request)
        /\ calls[c].outcome = "RETURNED_EMPTY"

\* The file holds an entry under the request's hash whose schemaVersion is
\* not the current one, or is missing.
StaleSchemaEntry(f, request) ==
    /\ HoldsEntry(f)
    /\ Field(Entry(f), "configHash") = ExpectedHash(request)
    /\ Field(Entry(f), "schemaVersion") # <<"1", ".", "0", ".", "0">>

\* C8: in the build with schema versioning, an entry whose schemaVersion is not
\* the expected one, or is missing, is a miss even under the right configHash:
\* getCachedData returns nothing and the call goes on to the token request.
C8_SchemaMismatchIsMiss ==
    \A c \in Slots :
        (/\ variant = "part_001" /\ ~Missing(calls[c].request)
         /\ StaleSchemaEntry(calls[c].fileAtStart, calls[c].request)) =>
            /\ ~getCachedData(variant, calls[c].fileAtStart, ExpectedHash(calls[c].request)).hit
            /\ calls[c].pc \notin {"idle", "cacheCheck"} =>
                    calls[c].tokenReqs = 1 \/ calls[c].pc = "getToken"
            /\ Done(c) => calls[c].outcome # "RETURNED_CACHED" /\ calls[c].tokenReqs = 1

\* C8 witness: part_001 met an entry written without schemaVersion under the
\* request's hash, read the cache and made the token request.
C8_Witness ==
    \E c \in Slots :
        /\ Done(c) /\ variant = "part_001" /\ ~calls[c].request.forceModelsRefresh
        /\ StaleSchemaEntry(calls[c].fileAtStart, calls[c].request)
        /\ "schemaVersion" \notin DOMAIN Entry(calls[c].fileAtStart)
        /\ EntryNames(calls[c].fileAtStart) # <<>>
        /\ calls[c].cacheReads = 1 /\ calls[c].tokenReqs = 1

\* C9: after saveCachedData wrote modelNames under a configHash, getCachedData
\* with that configHash returns an entry with the same modelNames, element for
\* element and in order.
C9_SaveThenGetRoundTrip ==
    \A c \in Slots :
        (Done(c) /\ calls[c].write = "written") =>
            LET cachedData == getCachedData(variant, file, calls[c].configHash) IN
            /\ cachedData.hit
            /\ cachedData.modelNames = calls[c].result
            /\ Len(cachedData.modelNames) = Len(calls[c].result)

\* C9 witness: two names were written, one of them with a quote in it.
C9_Witness ==
    \E c \in Slots :
        /\ Done(c) /\ calls[c].write = "written"
        /\ Len(calls[c].result) = 2
        /\ calls[c].result[1] = <<"b", "\"">>
        /\ calls[c].result[2] = <<"f", "o", "o">>

\* C10 as claimed: in a caching build a call that returns without a successful
\* live fetch leaves the cache file as it found it, and a call that returns a
\* fresh result leaves in it the fresh result under the request's configHash.
C10_Original ==
    \A c \in Slots :
        (Done(c) /\ Caching(variant)) =>
            /\ calls[c].outcome # "RETURNED_FRESH" => file = calls[c].fileAtStart
            /\ calls[c].outcome = "RETURNED_FRESH" => HoldsFreshResult(file, calls[c])

\* C10 as amended: in a caching build a call that returns without a successful
\* live fetch writes nothing and leaves the cache file as it found it; a call
\* that returns a fresh result has made exactly one write, of the fresh result
\* under the request's configHash, which is the entry if the write succeeded;
\* a failed write leaves the file as it was or truncated.
C10_CacheWrittenOnlyOnFreshFetch ==
    \A c \in Slots :
        (Done(c) /\ Caching(variant)) =>
            /\ calls[c].outcome # "RETURNED_FRESH" =>
                    calls[c].cacheWrites = 0 /\ file = calls[c].fileAtStart
            /\ calls[c].outcome = "RETURNED_FRESH" =>
                    /\ calls[c].cacheWrites = 1
                    /\ calls[c].write = "written" =>
                            /\ HoldsFreshResult(file, calls[c])
                            /\ variant = "part_000" => EntryOrch(file) = calls[c].resultOrch
                    /\ calls[c].write = "failed" => file = calls[c].fileAtStart
                    /\ calls[c].write = "truncated" => file = TruncatedFile

\* C10 witness: a fetch after a cache miss replaced an entry held under another
\* hash by the fresh result.
C10_Witness ==
    \E c \in Slots :
        /\ Done(c) /\ Caching(variant) /\ ~calls[c].request.forceModelsRefresh
        /\ HoldsEntry(calls[c].fileAtStart)
        /\ Field(Entry(calls[c].fileAtStart), "configHash") # ExpectedHash(calls[c].request)
        /\ calls[c].outcome = "RETURNED_FRESH" /\ calls[c].write = "written"
        /\ calls[c].result # <<>>

\* The deployment is running and carries a model name and a model version.
Contributes(d) ==
    /\ d.targetStatus = "RUNNING"
    /\ d.name # <<"undefined">> /\ d.name # <<>>
    /\ d.version # <<"undefined">> /\ d.version # <<>>

\* The observed listing was answered with resources.
ListingAnswered == listing.made /\ ~listing.rejected

\* The model names of a result (part_002 returns them inside pairs).
ResultNames(call) ==
    IF variant = "part_002"
    THEN [i \in 1..Len(call.result) |-> call.result[i].modelName]
    ELSE call.result

SampleListing ==
    << [id |-> <<"1">>, targetStatus |-> "RUNNING", scenarioId |-> "foundation-models",
        name |-> <<"F", "o", "o">>, version |-> <<"1">>],
       [id |-> <<"2">>, targetStatus |-> "STOPPED", scenarioId |-> "foundation-models",
        name |-> <<"B", "a", "r">>, version |-> <<"2">>] >>

\* C11: in every build, a call whose listing was answered returns a fresh
\* result with one element for each listed deployment that is RUNNING and has
\* both a model name and a model version, each element naming such a
\* deployment; the other deployments are skipped and raise no error. The
\* listing [RUNNING Foo:1, STOPPED Bar:2] yields the single name foo.
C11_OnlyRunningWithModelContribute ==
    \A c \in Slots :
        (Done(c) /\ ListingAnswered) =>
            LET names == ResultNames(calls[c])
                contributing == SelectSeq(listing.resources, Contributes)
            IN  /\ calls[c].outcome = "RETURNED_FRESH"
                /\ Len(names) = Len(contributing)
                /\ \A i \in 1..Len(names) :
                        \E j \in 1..Len(contributing) :
                            names[i] = toLowerCase(contributing[j].name)
                /\ listing.resources = SampleListing => names = << <<"f", "o", "o">> >>

\* C11 witness: a listing of a running deployment without model version and a
\* stopped one was answered, and the call returned an empty fresh result.
C11_Witness ==
    \E c \in Slots :
        /\ Done(c) /\ ListingAnswered
        /\ Len(listing.resources) = 2
        /\ listing.resources[1].name = <<"B", "a", "r">>
        /\ listing.resources[1].targetStatus = "RUNNING"
        /\ listing.resources[1].version = <<"undefined">>
        /\ listing.resources[2].targetStatus = "STOPPED"
        /\ calls[c].outcome = "RETURNED_FRESH" /\ calls[c].result = <<>>

\* How often x occurs in a sequence.
Count(xs, x) == Cardinality({i \in 1..Len(xs) : xs[i] = x})

\* The lowercased model names of the contributing deployments of the observed
\* listing, in the order listed (no model name of the listings has a colon).
ContributedNames ==
    LET contributing == SelectSeq(listing.resources, Contributes)
    IN  [i \in 1..Len(contributing) |-> toLowerCase(contributing[i].name)]

\* C12: in the caching builds the fresh result of a call whose listing was
\* answered holds the lowercased names before the colon of the kept
\* deployments, each as often as it was listed (duplicates stay), in ascending
\* order; a write that succeeds leaves exactly this sequence in the cache.
C12_FreshResultNormalised ==
    \A c \in Slots :
        (Done(c) /\ Caching(variant) /\ ListingAnswered) =>
            LET result == calls[c].result IN
            /\ Len(result) = Len(ContributedNames)
            /\ \A i \in 1..Len(result) :
                    Count(result, result[i]) = Count(ContributedNames, result[i])
            /\ \A i \in 1..Len(result) : \A j \in i..Len(result) :
                    ~StrLess(result[j], result[i])
            /\ \A i \in 1..Len(result) : \A k \in 1..Len(result[i]) :
                    result[i][k] # ":" /\ result[i][k] \notin {"F", "B"}
            /\ calls[c].write = "written" => EntryNames(file) = result

\* C12 witness: Foo:1 listed before b":2 came back as b", foo, and was written.
C12_Witness ==
    \E c \in Slots :
        /\ Done(c) /\ Caching(variant) /\ ListingAnswered
        /\ Len(listing.resources) = 2
        /\ listing.resources[1].name = <<"F", "o", "o">>
        /\ calls[c].result = << <<"b", "\"">>, <<"f", "o", "o">> >>
        /\ calls[c].write = "written" /\ EntryNames(file) = calls[c].result

\* The file is missing or its text is not a JSON object.
Unusable(f) == ~f.exists \/ ~f.closed \/ f.tail # <<>>

\* C13: in the caching builds no failure of the cache escapes. A call without
\* forced refresh that finds the file missing or not valid JSON reads it, gets
\* nothing and goes on to the token request as on a miss; a call whose write
\* fails still returns the fresh result of its live fetch: the normalised names
\* of the listing.
C13_CacheFailuresContained ==
    \A c \in Slots :
        LET call == calls[c] IN
        /\ call.outcome \in {"NONE", "RETURNED_EMPTY", "RETURNED_CACHED", "RETURNED_FRESH"}
        /\ (/\ Caching(variant) /\ ~Missing(call.request)
            /\ ~call.request.forceModelsRefresh /\ Unusable(call.fileAtStart)
            /\ call.pc \notin {"idle", "cacheCheck"}) =>
                /\ call.cacheReads >= 1
                /\ call.pc = "getToken" \/ call.tokenReqs = 1
                /\ call.outcome # "RETURNED_CACHED"
        /\ (Done(c) /\ call.write \in {"failed", "truncated"}) =>
                /\ call.outcome = "RETURNED_FRESH"
                /\ call.cacheWrites = 1
                /\ ListingAnswered =>
                        /\ Len(call.result) = Len(ContributedNames)
                        /\ \A i \in 1..Len(call.result) :
                                Count(call.result, call.result[i])
                                    = Count(ContributedNames, call.result[i])

\* C13 witness: a call found a file that is not JSON, fetched one name, failed
\* to write it and returned it.
C13_Witness ==
    \E c \in Slots :
        /\ Done(c) /\ Caching(variant) /\ ~calls[c].request.forceModelsRefresh
        /\ calls[c].fileAtStart.exists /\ Unusable(calls[c].fileAtStart)
        /\ calls[c].cacheReads = 1
        /\ calls[c].write = "failed" /\ ListingAnswered
        /\ calls[c].outcome = "RETURNED_FRESH" /\ Len(calls[c].result) = 1

\* C14: in every build, a call whose token request succeeded without an access
\* token never makes a listing request, and returns a fresh result whose only
\* element is the sentinel ai-core-not-configured (part_002: paired with the
\* deployment id notconfigured), not an empty list.
C14_EmptyTokenYieldsSentinel ==
    \A c \in Slots :
        calls[c].token = "empty_token" =>
            /\ calls[c].listReqs = 0
            /\ calls[c].pc \in {"fetch", "save", "done"}
            /\ calls[c].pc = "save" => calls[c].modelNames = <<SentinelName>>
            /\ Done(c) =>
                    /\ calls[c].outcome = "RETURNED_FRESH"
                    /\ Len(calls[c].result) = 1
                    /\ ResultNames(calls[c]) = <<SentinelName>>
                    /\ variant = "part_002" => calls[c].result[1].deploymentId = SentinelId

\* C14 witness: a forced refresh got a token response without access token and
\* returned the sentinel, which a caching build also wrote to the cache.
C14_Witness ==
    \E c \in Slots :
        /\ Done(c) /\ calls[c].token = "empty_token"
        /\ calls[c].request.forceModelsRefresh
        /\ calls[c].write = "written"
        /\ EntryNames(file) = <<SentinelName>>
        /\ calls[c].result = <<SentinelName>>

\* C16: in every build a call makes at most one token request and at most one
\* listing request; the listing request is made only with the access token the
\* call's own token request returned; after a rejected token request or a
\* rejected listing nothing is requested again; and a call begins without an
\* access token, whatever the calls before it obtained.
C16_OneTokenThenOneListing ==
    \A c \in Slots :
        LET call == calls[c] IN
        /\ call.tokenReqs <= 1 /\ call.listReqs <= 1
        /\ call.listReqs = 1 => (call.tokenReqs = 1 /\ call.token = "token")
        /\ call.pc = "getToken" => (call.tokenReqs = 0 /\ call.listReqs = 0)
        /\ call.pc = "fetch" => (call.tokenReqs = 1 /\ call.listReqs = 0)
        /\ call.pc # "fetch" => call.accessToken = <<>>
        /\ call.tokenReqs = 0 => call.token = "none"
        /\ call.token = "rejected" => call.pc \in {"fallback", "done"}

\* C16 witness: a call repeated the request of a call that had fetched, and
\* made its own token request and its own listing request, which was rejected.
C16_Witness ==
    \E c \in Slots :
        /\ Done(c) /\ calls[c].prev.some /\ calls[c].prev.outcome = "RETURNED_FRESH"
        /\ calls[c].prev.clientSecret = calls[c].request.clientSecret
        /\ calls[c].tokenReqs = 1 /\ calls[c].token = "token"
        /\ calls[c].listReqs = 1 /\ calls[c].outcome # "RETURNED_FRESH"

\* The requests name the same clientId, baseUrl and resourceGroup.
SameConfig(r1, r2) ==
    /\ r1.clientId = r2.clientId
    /\ r1.baseUrl = r2.baseUrl
    /\ r1.resourceGroup = r2.resourceGroup

\* The call came, without forced refresh, right after a call for the same
\* clientId, baseUrl and resourceGroup made with another secret or token URL.
RotatedCall(c) ==
    /\ Done(c) /\ Caching(variant) /\ ~Missing(calls[c].request)
    /\ calls[c].prev.some
    /\ \/ calls[c].prev.clientSecret # calls[c].request.clientSecret
       \/ calls[c].prev.tokenUrl # calls[c].request.tokenUrl

\* C15 as claimed: a call without forced refresh that follows a successful
\* fetch made for the same clientId, baseUrl and resourceGroup with another
\* secret or token URL returns that fetch's result from the cache, without a
\* token request.
C15_Original ==
    \A c \in Slots :
        (RotatedCall(c) /\ calls[c].prev.outcome = "RETURNED_FRESH") =>
            ServedFromCacheAsBefore(calls[c])

\* C15 as amended: requests with the same clientId, baseUrl and resourceGroup
\* have the same configHash whatever their clientSecret and tokenUrl; a call
\* without forced refresh that follows a fetch for the same three made with
\* another secret or token URL returns that fetch's result from the cache,
\* without a token request, provided the fetch succeeded and its cache write
\* succeeded.
C15_RotatedSecretServedFromCache ==
    /\ \A r1, r2 \in KeyRequests :
            SameConfig(r1, r2) => generateConfigHash(r1) = generateConfigHash(r2)
    /\ \A c \in Slots :
            (/\ RotatedCall(c)
             /\ calls[c].prev.outcome = "RETURNED_FRESH"
             /\ calls[c].prev.write = "written") =>
                ServedFromCacheAsBefore(calls[c])

\* C15 witness: after a fetch with secret s and token URL t wrote a name, the
\* call with secret p and token URL w got that name from the cache.
C15_Witness ==
    \E c \in Slots :
        /\ RotatedCall(c)
        /\ calls[c].prev.clientSecret = <<"s">> /\ calls[c].request.clientSecret = <<"p">>
        /\ calls[c].prev.tokenUrl = <<"t">> /\ calls[c].request.tokenUrl = <<"w">>
        /\ calls[c].prev.outcome = "RETURNED_FRESH" /\ calls[c].prev.write = "written"
        /\ calls[c].outcome = "RETURNED_CACHED"
        /\ calls[c].result = calls[c].prev.result /\ calls[c].result # <<>>

\* C20: whenever a call returns a cached result, the entry it returns was
\* written by a call for the same clientId, baseUrl and resourceGroup, also
\* when these contain the dash they are joined by.
C20_EntryServedOnlyToItsConfig ==
    \A c \in Slots :
        (Done(c) /\ calls[c].outcome = "RETURNED_CACHED" /\ writer # NoRequest) =>
            SameConfig(writer, calls[c].request)

\* The file holds an entry written under the hash of another configuration
\* than the request's.
HoldsOtherEntry(f, request) ==
    HoldsEntry(f) /\ Field(Entry(f), "configHash") # ExpectedHash(request)

\* A call without forced refresh that finds another configuration's entry
\* reads it, misses, makes the token request, and returns empty if its live
\* fetch fails.
MissOnOtherEntry(c) ==
    (/\ Done(c) /\ Caching(variant) /\ ~Missing(calls[c].request)
     /\ ~calls[c].request.forceModelsRefresh
     /\ HoldsOtherEntry(calls[c].fileAtStart, calls[c].request)) =>
        /\ calls[c].cacheReads >= 1
        /\ calls[c].tokenReqs = 1
        /\ calls[c].outcome # "RETURNED_CACHED"
        /\ calls[c].outcome # "RETURNED_FRESH" =>
                (calls[c].outcome = "RETURNED_EMPTY" /\ calls[c].result = <<>>)

\* C19 as claimed: after a successful live fetch of a call, an entry of another
\* configuration that the file held is gone and the file holds the call's own;
\* and a call without forced refresh that finds another configuration's entry
\* misses, fetches, and returns empty if the fetch fails.
C19_Original ==
    \A c \in Slots :
        /\ (/\ Done(c) /\ Caching(variant) /\ calls[c].outcome = "RETURNED_FRESH"
            /\ HoldsOtherEntry(calls[c].fileAtStart, calls[c].request)) =>
                ~HoldsOtherEntry(file, calls[c].request)
        /\ MissOnOtherEntry(c)

\* C19 as amended: the file holds at most one entry; after a successful live
\* fetch of a call whose cache write succeeded, an entry of another
\* configuration that the file held is gone and the file holds the call's own;
\* and a call without forced refresh that finds another configuration's entry
\* misses, fetches, and returns empty if the fetch fails.
C19_SingleSlot ==
    \A c \in Slots :
        /\ (/\ Done(c) /\ Caching(variant) /\ calls[c].outcome = "RETURNED_FRESH"
            /\ calls[c].write = "written"
            /\ HoldsOtherEntry(calls[c].fileAtStart, calls[c].request)) =>
                /\ ~HoldsOtherEntry(file, calls[c].request)
                /\ HoldsFreshResult(file, calls[c])
        /\ MissOnOtherEntry(c)

\* C19 witness: the file held the names a call for another baseUrl had written;
\* the call missed, its token request was made and its fetch failed, and it
\* returned empty.
C19_Witness ==
    \E c \in Slots :
        /\ Done(c) /\ Caching(variant) /\ ~calls[c].request.forceModelsRefresh
        /\ HoldsOtherEntry(calls[c].fileAtStart, calls[c].request)
        /\ EntryNames(calls[c].fileAtStart) # <<>>
        /\ writer # NoRequest /\ writer.baseUrl # calls[c].request.baseUrl
        /\ calls[c].tokenReqs = 1
        /\ calls[c].outcome = "RETURNED_EMPTY"

\* The pairs of the contributing deployments of the observed listing, in the
\* order listed: the lowercased model name and the deployment's id.
ContributedPairs ==
    LET contributing == SelectSeq(listing.resources, Contributes)
    IN  [i \in 1..Len(contributing) |->
            [modelName |-> toLowerCase(contributing[i].name),
             deploymentId |-> contributing[i].id]]

\* The pairs are those of the contributing deployments, one for each, by
\* non-decreasing modelName.
PairsOfListing(result) ==
    /\ Len(result) = Len(ContributedPairs)
    /\ \A i \in 1..Len(result) : Count(result, result[i]) = Count(ContributedPairs, result[i])
    /\ \A i \in 1..Len(result) : \A j \in i..Len(result) :
            ~LocaleLess(result[j].modelName, result[i].modelName)

\* The token request or the listing request of the call was rejected.
RequestRejected(call) ==
    call.token = "rejected" \/ (call.listReqs = 1 /\ listing.made /\ listing.rejected)

\* C18 as claimed: in the build that returns model-deployment pairs, the pairs
\* a call returns are those of the kept deployments of its listing (lowercased
\* base name, the deployment's own id), one for each, by non-decreasing
\* modelName; and the result is empty if the token request or the listing
\* request fails.
C18_Original ==
    \A c \in Slots :
        (Done(c) /\ variant = "part_002" /\ ~Missing(calls[c].request)) =>
            /\ PairsOfListing(calls[c].result)
            /\ RequestRejected(calls[c]) => calls[c].result = <<>>

\* C18 as amended: as claimed, except that a call whose token request
\* succeeded without an access token makes no listing request and returns the
\* single pair (ai-core-not-configured, notconfigured), which is the pair of no
\* deployment.
C18_PairsOfKeptDeployments ==
    \A c \in Slots :
        (Done(c) /\ variant = "part_002" /\ ~Missing(calls[c].request)) =>
            /\ calls[c].token # "empty_token" => PairsOfListing(calls[c].result)
            /\ calls[c].token = "empty_token" =>
                    calls[c].result =
                        << [modelName |-> SentinelName, deploymentId |-> SentinelId] >>
            /\ RequestRejected(calls[c]) => calls[c].result = <<>>

\* C18 witness: the listing [Foo:1 of deployment 1, b":2 of deployment 9] came
\* back as the pairs (b", 9), (foo, 1).
C18_Witness ==
    \E c \in Slots :
        /\ Done(c) /\ variant = "part_002" /\ ListingAnswered
        /\ calls[c].result =
                << [modelName |-> <<"b", "\"">>, deploymentId |-> <<"9">>],
                   [modelName |-> <<"f", "o", "o">>, deploymentId |-> <<"1">>] >>
        /\ listing.resources[1].id = <<"1">>

\* The call fetched, wrote its entry and returned.
FetchedAndWrote(c) ==
    Done(c) /\ calls[c].outcome = "RETURNED_FRESH" /\ calls[c].write = "written"

\* No call is between the open and the write of its fs.writeFile, and no
\* write has failed.
NoWriteUnderWay ==
    \A c \in Slots : calls[c].pc # "write" /\ calls[c].write \notin {"failed", "truncated"}

\* C17: of two overlapping calls in a caching build, each that fetches makes
\* its own token request and its own listing request; when both have fetched,
\* written and returned, the file holds exactly the entry of one of them, names
\* and configHash, the one that wrote last; and whenever no write is under way
\* or has failed, the file is absent or holds one complete entry.
C17_OverlapLastWriteWins ==
    Caching(variant) =>
        /\ \A c \in Slots :
                (Done(c) /\ calls[c].outcome = "RETURNED_FRESH") => calls[c].tokenReqs = 1
        /\ (\A c \in Slots : FetchedAndWrote(c)) =>
                \E c \in Slots :
                    /\ HoldsFreshResult(file, calls[c])
                    /\ writer = [calls[c].request EXCEPT !.forceModelsRefresh = FALSE]
        /\ NoWriteUnderWay => (~file.exists \/ HoldsEntry(file))

\* The sentinel is among the names.
HasSentinel(names) ==
    \E i \in 1..Len(names) :
        names[i] = <<"a", "i", "-", "c", "o", "r", "e", "-", "n", "o", "t", "-",
                     "c", "o", "n", "f", "i", "g", "u", "r", "e", "d">>

\* C21: the sentinel ai-core-not-configured is never persisted: the entry of
\* the cache file never has it among its modelNames, and no call returns it
\* from the cache.
C21_SentinelNeverPersisted ==
    /\ HoldsEntry(file) => ~HasSentinel(EntryNames(file))
    /\ \A c \in Slots :
            (Done(c) /\ calls[c].outcome = "RETURNED_CACHED") => ~HasSentinel(calls[c].result)

-----------------------------------------------------------------------------
(* The settings panel *)

\* The session cache holds a completed check of the configuration's credentials.
CacheValid(cache, config) ==
    cache.some /\ cache.hasChecked /\ cache.credentialsHash = getCredentialsHash(config)

\* C22: when model options are shown and all required credentials are
\* present, the session cache effect issues no RPC if sessionCache exists,
\* has hasChecked and carries the hash of the current configuration, and
\* copies its models and orchestrationAvailable into the component's state;
\* otherwise it starts exactly one fetch.
C22_SessionCacheEffect ==
    [][(/\ event'.kind = "effect"
        /\ provider'.showModelOptions
        /\ hasRequiredCredentials(apiConfiguration'))
       => IF CacheValid(sessionCache, apiConfiguration')
            THEN /\ provider'.rpcs = provider.rpcs
                 /\ provider'.deployedModelsArray = sessionCache.models
                 /\ provider'.orchestrationAvailable = sessionCache.orchestrationAvailable
                 /\ provider'.hasCheckedOrchestration
                 /\ sessionCache' = sessionCache
            ELSE /\ Len(provider'.rpcs) = Len(provider.rpcs) + 1
                 /\ event'.started = 1]_vars

\* The effect found the session cache of an earlier fetch and used it.
C22_Witness ==
    /\ event.kind = "effect"
    /\ event.started = 0
    /\ provider.showModelOptions
    /\ hasRequiredCredentials(apiConfiguration)
    /\ CacheValid(sessionCache, apiConfiguration)
    /\ provider.deployedModelsArray = <<"gpt">>
    /\ provider.rpcs = <<>>

\* The handler that ran last called fetchSapAiCoreModels in a render that
\* lacked a required credential.
FetchWithoutCredentials ==
    /\ event.kind = "blur"
    /\ event.hasChanged
    /\ provider.showModelOptions
    /\ ~hasRequiredCredentials(apiConfiguration)

\* C23: fetchSapAiCoreModels clears the session cache on every unsuccessful
\* outcome: after a call made without all required credentials and after a
\* call whose RPC rejected, sessionCache is null, the displayed list is empty
\* and orchestrationAvailable is false; sessionCache is set, with hasChecked
\* and the hash of the configuration the fetch was started with, only after
\* an RPC that resolved.
C23_UnsuccessfulFetchClearsCache ==
    [][/\ (event'.kind = "rejected" \/ FetchWithoutCredentials')
            => /\ sessionCache' = NoSessionCache
               /\ provider'.deployedModelsArray = <<>>
               /\ ~provider'.orchestrationAvailable
       /\ (sessionCache' # sessionCache /\ sessionCache'.some)
            => /\ event'.kind = "resolved"
               /\ sessionCache'.hasChecked
               /\ sessionCache'.credentialsHash = event'.value
               /\ Len(provider.rpcs) = Len(provider'.rpcs) + 1
               /\ \E i \in 1..Len(provider.rpcs) : provider.rpcs[i] = event'.value]_vars

\* A fetch was rejected after another had filled the session cache: the
\* cache is gone, and the error shows.
C23_Witness ==
    /\ event.kind = "rejected"
    /\ provider.modelError
    /\ provider.latest.some
    /\ provider.latest.resolved
    /\ provider.overlapped
    /\ provider.rpcs = <<>>
    /\ sessionCache = NoSessionCache

\* What the component shows and the session cache holds when the fetch that
\* was started last is the one whose answer counts.
AsOfLatest(p, cache) ==
    /\ p.deployedModelsArray = p.latest.modelNames
    /\ p.orchestrationAvailable = p.latest.orchestrationAvailable
    /\ cache = IF p.latest.resolved
                 THEN [some |-> TRUE, credentialsHash |-> p.latest.credentialsHash,
                       models |-> p.latest.modelNames,
                       orchestrationAvailable |-> p.latest.orchestrationAvailable,
                       hasChecked |-> TRUE]
                 ELSE NoSessionCache

\* C24: when two fetches overlap and their responses arrive in any order,
\* once both have completed the displayed model list, orchestrationAvailable
\* and sessionCache are those of the fetch that was started last.
C24_LastStartedFetchWins ==
    (/\ event.kind \in {"resolved", "rejected"}
     /\ provider.overlapped
     /\ provider.rpcs = <<>>)
        => AsOfLatest(provider, sessionCache)

\* C25: isLoadingModels is true in every state in which at least one RPC of
\* the component is in flight, and false once none is.
C25_LoadingWhileInFlight ==
    provider.mounted => (provider.isLoadingModels <=> provider.rpcs # <<>>)

\* A check completed without orchestration while the mode is switched on.
OrchestrationOnButUnavailable ==
    /\ provider.hasCheckedOrchestration
    /\ ~provider.orchestrationAvailable
    /\ apiConfiguration.sapAiCoreUseOrchestrationMode

\* C26: orchestration mode is switched off automatically only after a check
\* has completed: whenever hasCheckedOrchestration is true,
\* orchestrationAvailable is false and sapAiCoreUseOrchestrationMode is true,
\* the mode is eventually false; and the component never sends false on its
\* own while hasCheckedOrchestration is false or orchestrationAvailable is true.
C26_OrchestrationSwitchedOffAfterCheck ==
    /\ OrchestrationOnButUnavailable ~> ~apiConfiguration.sapAiCoreUseOrchestrationMode
    /\ [](event.off => (provider.hasCheckedOrchestration /\ ~provider.orchestrationAvailable))

\* The orchestration effect has just sent its update, after a check that
\* found no orchestration.
C26_Witness ==
    /\ event.off
    /\ event.kind \in {"resolved", "rejected"}
    /\ OrchestrationOnButUnavailable
    /\ pending = <<Update("sapAiCoreUseOrchestrationMode", "false", "effect")>>

-----------------------------------------------------------------------------
(* The debounced field *)

\* This step called the onChange of the client id's field: handleFieldChange
\* sent an update of the client id.
OnChangeCalled ==
    /\ Len(pending') = Len(pending) + 1
    /\ SubSeq(pending', 1, Len(pending)) = pending
    /\ pending'[Len(pending')].field = "sapAiCoreClientId"

\* C27: useDebouncedInput calls onChange only when the debounce fires with a
\* local value different from the last committed value, at most once per
\* firing and never with the committed value, and then commits that value;
\* a local value that differs from the committed one is eventually committed
\* or reset; an external change of initialValue sets both values to it
\* without a call of onChange.
C27_DebouncedInputCommits ==
    /\ [][/\ OnChangeCalled
                => /\ event'.kind = "fire"
                   /\ field.armed
                   /\ field.localValue # field.committedValue
                   /\ pending'[Len(pending')].value = field.localValue
                   /\ field'.committedValue = field.localValue
                   /\ field'.localValue = field.localValue
          /\ event'.kind = "fire" => event'.calls = (IF OnChangeCalled THEN 1 ELSE 0)
          /\ field'.committedValue # field.committedValue
                => (OnChangeCalled \/ field'.initialValue # field.initialValue)
          /\ (provider.mounted /\ field'.initialValue # field.initialValue)
                => /\ field'.localValue = field'.initialValue
                   /\ field'.committedValue = field'.initialValue
                   /\ ~OnChangeCalled]_vars
    /\ (field.localValue # field.committedValue) ~> (field.localValue = field.committedValue)

\* The debounce fired on a value the user typed and committed it.
C27_Witness ==
    /\ event.kind = "fire"
    /\ event.calls = 1
    /\ event.value = "b"
    /\ field.localValue = "b"
    /\ field.committedValue = "b"
    /\ field.initialValue = "a"
    /\ pending = <<Update("sapAiCoreClientId", "b", "user")>>

\* C28: whenever the user changed the field of the client id to a new value
\* and the field then loses focus while model options are shown, the blur
\* handler is called with hasChanged = true and a model fetch is started,
\* whether or not the debounce fired before the blur.
C28_BlurAfterChangeFetches ==
    (/\ event.kind = "blur"
     /\ event.edited
     /\ provider.showModelOptions)
        => /\ event.hasChanged
           /\ hasRequiredCredentials(apiConfiguration) => event.started = 1

-----------------------------------------------------------------------------
(* The picker *)

\* The id of the first deployment of the stored model, "" if there is none.
FirstDeploymentId(p) ==
    IF Find(p.deployments, p.modelId) # 0
      THEN p.deployments[Find(p.deployments, p.modelId)].deploymentId
      ELSE ""

\* Deployments are listed, both ids are stored, and the first deployment of
\* the stored model has another id than the stored one.
Mismatch(p) ==
    /\ p.deployments # <<>>
    /\ p.modelId # ""
    /\ p.deploymentId # ""
    /\ Find(p.deployments, p.modelId) # 0
    /\ FirstDeploymentId(p) # p.deploymentId

\* The updates the effects of this step's render sent.
SentByEffects ==
    SubSeq(picker'.updates, Len(picker'.updates) - event'.started + 1, Len(picker'.updates))

C30_ChoiceOfDeployedModelOnly ==
    [][event'.kind = "choose"
        => /\ picker'.modelId = picker.modelId
           /\ picker'.deploymentId = picker.deploymentId
           /\ IF \E i \in 1..Len(picker.deployments) :
                        picker.deployments[i].modelName = event'.value
                THEN \E i \in 1..Len(picker.deployments) :
                        /\ picker.deployments[i].modelName = event'.value
                        /\ \A j \in 1..(i - 1) : picker.deployments[j].modelName # event'.value
                        /\ picker'.updates =
                                Append(picker.updates,
                                       ModeUpdate(event'.value,
                                                  picker.deployments[i].deploymentId, "user"))
                ELSE picker'.updates = picker.updates]_vars

\* The user chose a model that two deployments share: the update carries
\* the id of the first.
C30_Witness ==
    /\ event.kind = "choose"
    /\ event.value = "gpt"
    /\ Len(picker.deployments) = 2
    /\ picker.deployments[1] = [modelName |-> "gpt", deploymentId |-> "d2"]
    /\ picker.deployments[2] = [modelName |-> "gpt", deploymentId |-> "d1"]
    /\ picker.modelId = "claude"
    /\ picker.updates = <<ModeUpdate("gpt", "d2", "user")>>

\* The model ids Cline supports.
SupportedIds == {"claude", "gemini", "gpt"}

\* The ids listed in a section of the dropdown.
SectionIds(section) == {section[i].id : i \in 1..Len(section)}

\* The sections are disjoint, together they hold every supported model id,
\* and the deployed section holds supported model ids only.
SectionsDivideSupported ==
    LET models == categorizedModels(picker.deployments)
    IN  /\ SectionIds(models.deployed) \cap SectionIds(models.supported) = {}
        /\ SupportedIds \subseteq SectionIds(models.deployed) \cup SectionIds(models.supported)
        /\ SectionIds(models.deployed) \subseteq SupportedIds
        /\ SectionIds(models.supported) \subseteq SupportedIds

\* No two options of the dropdown have the same key, and no two show the
\* same model id.
OptionKeysUnique ==
    LET options == renderOptions(picker.deployments)
    IN  \A i, j \in 1..Len(options) :
            i # j => /\ options[i].key # options[j].key
                     /\ options[i].value = "" \/ options[i].value # options[j].value

\* C31: for every deployment list the picker has, the "deployed" and the
\* "not deployed" sections are disjoint, their union contains every
\* supported model id, no unsupported deployed model is listed, and each
\* model id occurs at most once among the rendered options, whose keys are
\* unique.
C31_SectionsAndUniqueOptions ==
    picker.mounted => SectionsDivideSupported /\ OptionKeysUnique


====
